---- MODULE Spec2Model ----
(***************************************************************************)
(* Model of the change-broadcast engine of the live open-source           *)
(* intelligence platform: the ChangeDetector (backend/api/utils/          *)
(* change_detector.py), the message constructors (backend/api/models/     *)
(* websocket_events.py), the ConnectionManager (backend/api/routes/       *)
(* websocket.py) and the monitoring cycle (backend/api/main.py,           *)
(* backend/api/utils/pipeline_manager.py).                                *)
(*                                                                         *)
(* Conventions.  A Python dict is a TLA+ function whose DOMAIN is the set *)
(* of keys; d.get(k, default) is Get(d, k, default).  A dict is iterated  *)
(* in ascending key order (the insertion order of the argument).  Python  *)
(* None is NoRank (0) where an int is expected, NoId (0) for an event id  *)
(* and "None" where a string is expected.  Message timestamps             *)
(* (datetime.utcnow) are left out of the messages.                        *)
(***************************************************************************)
EXTENDS Integers, Sequences, FiniteSets, Bags, TLC

(***************************************************************************)
(* Bounds of the model.                                                    *)
(***************************************************************************)
NumRepos == 2
NumEventIds == 3
MaxBatch == 2
MetricBase == 100
MaxRank == 12
MaxConnections == 2
MaxBroadcasts == 2
MaxIngested == 1
MaxHeartbeats == 1
MaxDirectCalls == 1
MaxCycles == 2
MaxRows == 2
MaxTicks == 1
MaxPolls == 1
MaxEdges == 2
MaxActivity == 2
MaxNumber == 1
MaxCount == 4
MaxScore == 850
MaxCallbacks == 2
MaxManagerCalls == 6

\* GitHubClient, lines 34 and 36.
MAX_RETRIES == 3
RATE_LIMIT_BUFFER == 100

(***************************************************************************)
(* Program constants.                                                      *)
(***************************************************************************)
TopSize == 10
TotalEventsThreshold == 10
ActiveRepositoriesThreshold == 1
TotalQueriesThreshold == 5

NoRank == 0
NoId == 0
EmptyDict == [k \in {} |-> 0]

Repos == 1..NumRepos
Sockets == 1..MaxConnections
NoSocket == 0

\* _rate_limit_remaining is None: no count is known.
NoCount == -1
EventIds == 1..NumEventIds

Get(d, k, default) == IF k \in DOMAIN d THEN d[k] ELSE default

Put(d, k, v) == [x \in (DOMAIN d) \cup {k} |-> IF x = k THEN v ELSE d[x]]

Abs(n) == IF n < 0 THEN -n ELSE n

\* The keys of a dict in iteration order.
RECURSIVE KeysInOrder(_)
KeysInOrder(S) ==
    IF S = {} THEN <<>>
    ELSE LET k == CHOOSE x \in S : \A y \in S : x <= y
         IN <<k>> \o KeysInOrder(S \ {k})

Truthy(d) == DOMAIN d # {}

(***************************************************************************)
(* websocket_events.py: the message constructors.                          *)
(***************************************************************************)
create_new_event_message(event_id, repo_full_name, event_type) ==
    [type |-> "new_event", event_id |-> event_id,
     repo_full_name |-> repo_full_name, event_type |-> event_type]

create_summary_update_message(repo_full_name, summary, activity_score) ==
    [type |-> "summary_update", repo_full_name |-> repo_full_name,
     summary |-> summary, activity_score |-> activity_score]

RankingChangeDirection_UpBeforeOut(old_rank, new_rank) ==
    IF old_rank = NoRank THEN "new"
    ELSE IF old_rank > new_rank THEN "up"
    ELSE IF new_rank > TopSize THEN "out"
    ELSE IF old_rank < new_rank THEN "down"
    ELSE "none"

RankingChangeDirection(old_rank, new_rank) ==
    IF old_rank = NoRank THEN "new"
    ELSE IF new_rank > TopSize THEN "out"
    ELSE IF old_rank > new_rank THEN "up"
    ELSE IF old_rank < new_rank THEN "down"
    ELSE "none"

create_ranking_change_message(repo_full_name, old_rank, new_rank, activity_score) ==
    [type |-> "ranking_change", repo_full_name |-> repo_full_name,
     old_rank |-> old_rank, new_rank |-> new_rank,
     activity_score |-> activity_score,
     change |-> RankingChangeDirection(old_rank, new_rank)]

create_trend_change_message(repo_full_name, old_trend, new_trend, old_momentum, new_momentum) ==
    [type |-> "trend_change", repo_full_name |-> repo_full_name,
     old_trend |-> old_trend, new_trend |-> new_trend,
     old_momentum |-> old_momentum, new_momentum |-> new_momentum]

create_metrics_update_message(total_events, active_repositories, total_queries) ==
    [type |-> "metrics_update", total_events |-> total_events,
     active_repositories |-> active_repositories,
     total_queries |-> total_queries]

(***************************************************************************)
(* change_detector.py: the five detections.  Each returns the messages    *)
(* and the part of previous_state it leaves behind.                        *)
(***************************************************************************)
NewEventCondition_IgnoresSeen(event_id, seen) == event_id # NoId

NewEventCondition(event_id, seen) == event_id # NoId /\ event_id \notin seen

\* acc is [messages, event_ids]: the messages so far and the seen ids.
RECURSIVE DetectNewEvents(_, _, _)
DetectNewEvents(acc, current_events, k) ==
    IF k > Len(current_events) THEN acc
    ELSE LET event == current_events[k]
             event_id == Get(event, "event_id", NoId)
         IN IF NewEventCondition(event_id, acc.event_ids)
            THEN DetectNewEvents(
                     [messages |->
                         Append(acc.messages,
                                create_new_event_message(
                                    event_id,
                                    Get(event, "repo_full_name", "unknown"),
                                    Get(event, "event_type", "unknown"))),
                      event_ids |-> acc.event_ids \cup {event_id}],
                     current_events, k + 1)
            ELSE DetectNewEvents(acc, current_events, k + 1)

SummaryChanged_NotForFirst(current_summary, previous_summary) ==
    current_summary # previous_summary /\ previous_summary # ""

SummaryChanged(current_summary, previous_summary) ==
    current_summary # previous_summary

\* acc is [messages, summaries].
RECURSIVE DetectSummaryChanges(_, _, _)
DetectSummaryChanges(acc, current_summaries, keys) ==
    IF keys = <<>> THEN acc
    ELSE LET repo_name == Head(keys)
             summary_data == current_summaries[repo_name]
             previous == Get(acc.summaries, repo_name, EmptyDict)
             current_summary == Get(summary_data, "summary", "")
             previous_summary == IF Truthy(previous)
                                 THEN Get(previous, "summary", "") ELSE ""
         IN DetectSummaryChanges(
                [messages |->
                    IF SummaryChanged(current_summary, previous_summary)
                    THEN Append(acc.messages,
                                create_summary_update_message(
                                    repo_name, current_summary,
                                    Get(summary_data, "activity_score", 0)))
                    ELSE acc.messages,
                 summaries |-> Put(acc.summaries, repo_name, summary_data)],
                current_summaries, Tail(keys))

RankChanged_OnlyKnown(old_rank, new_rank) ==
    old_rank # NoRank /\ old_rank # new_rank

RankChanged(old_rank, new_rank) == old_rank # new_rank

StoreRankings(current_rankings) == current_rankings

RECURSIVE RankingMessages(_, _, _, _)
RankingMessages(rankings, summaries, current_rankings, keys) ==
    IF keys = <<>> THEN <<>>
    ELSE LET repo_name == Head(keys)
             new_rank == current_rankings[repo_name]
             old_rank == Get(rankings, repo_name, NoRank)
             activity_score ==
                 Get(Get(summaries, repo_name, EmptyDict), "activity_score", 0)
             emitted == IF RankChanged(old_rank, new_rank)
                        THEN <<create_ranking_change_message(
                                   repo_name, old_rank, new_rank, activity_score)>>
                        ELSE <<>>
         IN emitted \o RankingMessages(rankings, summaries, current_rankings, Tail(keys))

DetectRankingChanges(rankings, summaries, current_rankings) ==
    [messages |-> RankingMessages(rankings, summaries, current_rankings,
                                  KeysInOrder(DOMAIN current_rankings)),
     rankings |-> StoreRankings(current_rankings)]

TrendChanged_StatusOnly(new_trend, old_trend, new_momentum, old_momentum) ==
    new_trend # old_trend

TrendChanged(new_trend, old_trend, new_momentum, old_momentum) ==
    new_trend # old_trend \/ new_momentum # old_momentum

\* acc is [messages, trends].
RECURSIVE DetectTrendChanges(_, _, _)
DetectTrendChanges(acc, current_trends, keys) ==
    IF keys = <<>> THEN acc
    ELSE LET repo_name == Head(keys)
             trend_data == current_trends[repo_name]
             previous == Get(acc.trends, repo_name, EmptyDict)
             new_trend == Get(trend_data, "trend_status", "None")
             new_momentum == Get(trend_data, "momentum", "None")
             old_trend == IF Truthy(previous)
                          THEN Get(previous, "trend_status", "None") ELSE "None"
             old_momentum == IF Truthy(previous)
                             THEN Get(previous, "momentum", "None") ELSE "None"
         IN DetectTrendChanges(
                [messages |->
                    IF TrendChanged(new_trend, old_trend, new_momentum, old_momentum)
                    THEN Append(acc.messages,
                                create_trend_change_message(
                                    repo_name, old_trend, new_trend,
                                    old_momentum, new_momentum))
                    ELSE acc.messages,
                 trends |-> Put(acc.trends, repo_name, trend_data)],
                current_trends, Tail(keys))

thresholds ==
    [total_events |-> TotalEventsThreshold,
     active_repositories |-> ActiveRepositoriesThreshold,
     total_queries |-> TotalQueriesThreshold]

ExceedsThreshold_Strict(delta, threshold) == Abs(delta) > threshold

ExceedsThreshold(delta, threshold) == Abs(delta) >= threshold

_metrics_changed_significantly(old, new) ==
    \E key \in DOMAIN thresholds :
        ExceedsThreshold(Get(new, key, 0) - Get(old, key, 0), thresholds[key])

DetectMetricsChanges(metrics, current_metrics) ==
    [messages |->
        IF ~Truthy(metrics) \/ _metrics_changed_significantly(metrics, current_metrics)
        THEN <<create_metrics_update_message(
                   Get(current_metrics, "total_events", 0),
                   Get(current_metrics, "active_repositories", 0),
                   Get(current_metrics, "total_queries", 0))>>
        ELSE <<>>,
     metrics |-> current_metrics]


(***************************************************************************)
(* websocket.py: ConnectionManager.  A hub is the record                   *)
(* [active_connections, connection_info].                                  *)
(***************************************************************************)
Range(seq) == {seq[i] : i \in DOMAIN seq}

\* list.remove: the first occurrence.
RECURSIVE ListRemove(_, _)
ListRemove(seq, x) ==
    IF seq = <<>> THEN <<>>
    ELSE IF Head(seq) = x THEN Tail(seq)
    ELSE <<Head(seq)>> \o ListRemove(Tail(seq), x)

DictDelete(d, k) == [x \in (DOMAIN d) \ {k} |-> d[x]]

Register_ListOnly(hub, websocket) ==
    [active_connections |-> Append(hub.active_connections, websocket),
     connection_info |-> hub.connection_info]

\* connect, lines 44-51, after websocket.accept() has returned.
Register(hub, websocket) ==
    [active_connections |-> Append(hub.active_connections, websocket),
     connection_info |->
         Put(hub.connection_info, websocket,
             [client_id |-> websocket, messages_sent |-> 0])]

disconnect_KeepsInList(hub, websocket) ==
    IF websocket \in Range(hub.active_connections)
    THEN [active_connections |-> hub.active_connections,
          connection_info |-> DictDelete(hub.connection_info, websocket)]
    ELSE hub

disconnect(hub, websocket) ==
    IF websocket \in Range(hub.active_connections)
    THEN [active_connections |-> ListRemove(hub.active_connections, websocket),
          connection_info |-> DictDelete(hub.connection_info, websocket)]
    ELSE hub

\* messages_sent += 1, guarded by "if websocket in self.connection_info".
CountSent(info, websocket) ==
    IF websocket \in DOMAIN info
    THEN [info EXCEPT ![websocket].messages_sent = @ + 1]
    ELSE info

\* broadcast, lines 115-117: the frame of a call.
StartFrame(message, exclude) ==
    [pc |-> "loop", message |-> message, exclude |-> exclude, index |-> 1,
     sent_count |-> 0, failed_connections |-> <<>>, target |-> NoSocket]

IdleFrame == [StartFrame(0, {}) EXCEPT !.pc = "idle"]

RECURSIVE BroadcastLoop_IgnoresExclude(_, _, _)
BroadcastLoop_IgnoresExclude(conns, states, b) ==
    IF b.index > Len(conns) THEN [b EXCEPT !.pc = "cleanup", !.target = NoSocket]
    ELSE LET connection == conns[b.index]
             next == [b EXCEPT !.index = @ + 1]
         IN IF states[connection] = "CONNECTED"
            THEN [next EXCEPT !.pc = "sending", !.target = connection]
            ELSE BroadcastLoop_IgnoresExclude(conns, states,
                     [next EXCEPT !.failed_connections = Append(@, connection)])

\* broadcast, lines 119-130: the for loop from list position b.index on, up
\* to the next send_json (pc "sending") or the end of the list (pc
\* "cleanup").  states is the client_state of every connection.
RECURSIVE BroadcastLoop(_, _, _)
BroadcastLoop(conns, states, b) ==
    IF b.index > Len(conns) THEN [b EXCEPT !.pc = "cleanup", !.target = NoSocket]
    ELSE LET connection == conns[b.index]
             next == [b EXCEPT !.index = @ + 1]
         IN IF connection \in b.exclude
            THEN BroadcastLoop(conns, states, next)
            ELSE IF states[connection] = "CONNECTED"
            THEN [next EXCEPT !.pc = "sending", !.target = connection]
            ELSE BroadcastLoop(conns, states,
                     [next EXCEPT !.failed_connections = Append(@, connection)])

\* broadcast, lines 141-142: disconnect every failed connection.
RECURSIVE CleanUp(_, _)
CleanUp(hub, failed) ==
    IF failed = <<>> THEN hub
    ELSE CleanUp(disconnect(hub, Head(failed)), Tail(failed))

\* A run is the record [hub, b, queue, log, pruned]: the hub, the frame of
\* the broadcast call in progress, the messages broadcast_changes (main.py,
\* lines 69-71) has still to hand to broadcast, the messages handed over so
\* far, and the connections the returned calls cleaned up.  Advance runs the
\* code from the frame's position to the next suspension: the loop, at its
\* end the clean-up and the return, then the next message of the queue.
ForMessageIn_Backwards(queue) ==
    [message |-> queue[Len(queue)], rest |-> SubSeq(queue, 1, Len(queue) - 1)]

\* broadcast_changes, main.py line 69: the for statement takes the messages
\* of the list from its first to its last.
ForMessageIn(queue) ==
    [message |-> Head(queue), rest |-> Tail(queue)]

RECURSIVE Advance(_, _)
RECURSIVE AfterLoop(_, _, _)
AfterLoop(run, states, b) ==
    IF b.pc = "sending" THEN [run EXCEPT !.b = b]
    ELSE IF run.queue = <<>>
    THEN [run EXCEPT !.hub = CleanUp(run.hub, b.failed_connections),
                     !.b = [b EXCEPT !.pc = "done"],
                     !.pruned = @ \cup Range(b.failed_connections)]
    ELSE LET for == ForMessageIn(run.queue)
         IN Advance([hub |-> CleanUp(run.hub, b.failed_connections),
                     b |-> StartFrame(for.message, {}),
                     queue |-> for.rest,
                     log |-> Append(run.log, for.message),
                     pruned |-> run.pruned \cup Range(b.failed_connections)],
                    states)

Advance(run, states) ==
    AfterLoop(run, states, BroadcastLoop(run.hub.active_connections, states, run.b))

(***************************************************************************)
(* State.                                                                  *)
(*   previous_state  ChangeDetector.previous_state                         *)
(*   current         the arguments of the last check_for_changes call      *)
(*   messages        the list the last check_for_changes call returned     *)
(*   before          previous_state (and last_emitted) at the entry of     *)
(*                   the last call                                         *)
(*   calls           number of check_for_changes calls so far, capped at 2 *)
(*   repeat          the last call had the arguments of the call before it *)
(*   new_event_count per event id, the new_event messages returned so far, *)
(*                   capped at 2                                           *)
(*   last_emitted    the last metrics_update message returned, if any      *)
(***************************************************************************)
VARIABLES previous_state, current, messages, before, calls, repeat,
          new_event_count, last_emitted

\* created: the message the last direct call of create_ranking_change_message
\* returned, as a list of at most one message.
VARIABLES created

detVars == <<previous_state, current, messages, before, calls, repeat,
             new_event_count, last_emitted>>

(***************************************************************************)
(* The Broadcast Hub (ConnectionManager) and its connections.              *)
(*   active_connections  ConnectionManager.active_connections (a list)     *)
(*   connection_info     ConnectionManager.connection_info                 *)
(*   client_state        websocket.client_state of every WebSocket object  *)
(*   transport_up        whether a write to the WebSocket's transport      *)
(*                       succeeds; once down, send_json raises             *)
(*   handler             where websocket_endpoint stands for every         *)
(*                       WebSocket: "new" (not called yet), "welcome"      *)
(*                       (registered, in the welcome send), "receiving"    *)
(*                       (in the receive loop), "exited"                   *)
(*   broadcast           the frame of the ConnectionManager.broadcast      *)
(*                       call: pc is "idle", "sending" (suspended in       *)
(*                       send_json to target) or "done" (returned; the     *)
(*                       frame is kept until the next call)                *)
(*   broadcasts          number of broadcast_update calls made from        *)
(*                       outside the monitoring task                       *)
(*   pruned              the connections a returned broadcast call found   *)
(*                       failed or not connected                           *)
(***************************************************************************)
VARIABLES active_connections, connection_info, client_state, transport_up,
          handler, broadcast, broadcasts, pruned

hubVars == <<active_connections, connection_info, client_state, transport_up,
             handler, broadcast, broadcasts, pruned>>

(***************************************************************************)
(* The monitoring task and the pipeline it reads.                          *)
(*   ingested        the events the connector has yielded to the pipeline  *)
(*   monitor         _monitor_pipeline_changes: pc is "sleeping",          *)
(*                   "broadcasting" (inside broadcast_changes, queue       *)
(*                   holding the messages still to be broadcast) or        *)
(*                   "ended" (the task has returned)                       *)
(*   cycles          number of monitoring cycles started, capped at        *)
(*                   MaxCycles                                             *)
(*   cycle_ingested  the events ingested when the last cycle read the data *)
(*   broadcast_log   the messages handed to broadcast since the last       *)
(*                   cycle (or the last outside call) began                *)
(***************************************************************************)
VARIABLES ingested, monitor, cycles, cycle_ingested, broadcast_log

sysVars == <<ingested, monitor, cycles, cycle_ingested, broadcast_log>>

(***************************************************************************)
(* The heartbeat tasks (_heartbeat_loop), one per connection handler.      *)
(*   heartbeat       where the task of every WebSocket stands: "none" (not *)
(*                   created), "sleeping", "sending" (suspended in the     *)
(*                   send_json of send_personal_message) or "ended"        *)
(*   beats           number of heartbeat sends started                     *)
(*   late_attempt    the connections to which a heartbeat send was begun   *)
(*                   after a send_json to them had raised during a         *)
(*                   broadcast                                             *)
(*   late_heartbeat  the connections that were delivered such a heartbeat  *)
(***************************************************************************)
VARIABLES heartbeat, beats, late_attempt, late_heartbeat

hbVars == <<heartbeat, beats, late_attempt, late_heartbeat>>

(***************************************************************************)
(* What the broadcast call in progress (or the last one) has done.         *)
(*   sent_to       the connections whose send_json returned, in order      *)
(*   send_failed   the connections whose send_json raised, in order        *)
(*   steady        the connections that were registered, CONNECTED, with   *)
(*                 their transport up and not excluded when the call       *)
(*                 began, and have stayed so up to now (up to the return)  *)
(*   write_failed  the connections whose send_json has raised during any   *)
(*                 broadcast call so far                                   *)
(***************************************************************************)
VARIABLES sent_to, send_failed, steady, write_failed

obsVars == <<sent_to, send_failed, steady, write_failed>>

(***************************************************************************)
(* The Pathway side: the events table and the windowed aggregates.         *)
(*   events_table  the rows of the events table, a bag: a row is what one  *)
(*                 self.next call of a connector handed over               *)
(*   repos_window  the tables create_temporal_analysis builds from the     *)
(*                 events table, per window, keyed by repository           *)
(*   utcnow        the wall clock (datetime.utcnow()), in hours            *)
(*   ticks         number of times the clock has been moved on             *)
(***************************************************************************)
VARIABLES events_table, repos_window, utcnow, ticks

pipeVars == <<events_table, repos_window, utcnow, ticks>>

(***************************************************************************)
(* The GitHub connector (GitHubConnector.run).                             *)
(*   last_fetch_times  _last_fetch_times, per repository                   *)
(*   poll              the poll iteration in progress: the position in     *)
(*                     the loop over self.repositories, all_events so far, *)
(*                     and per repository the number of events of its      *)
(*                     response that _is_event_after_since accepts         *)
(*   yielded           the events handed to self.next in the iteration     *)
(*   polls             number of sleeps between iterations so far          *)
(***************************************************************************)
VARIABLES last_fetch_times, poll, yielded, polls

connVars == <<last_fetch_times, poll, yielded, polls>>

(***************************************************************************)
(* GitHub, upstream of the connector, and what the connector has handed    *)
(* to Pathway over its whole run.                                          *)
(*   github    the commits, pull requests, issues and releases that exist, *)
(*             keyed by <<repository, type, number>> (the oid, number or   *)
(*             tag), with the time of their creation or last update        *)
(*   activity  number of creations and updates so far                      *)
(*   handed    the ids of the events handed to self.next, in order         *)
(***************************************************************************)
VARIABLES github, activity, handed

upVars == <<github, activity, handed>>

(***************************************************************************)
(* The scoring stage of the pipeline.                                      *)
(*   scored  the row that calculate_scores or calculate_windowed_scores    *)
(*           selected last, NoRow before the first                         *)
(***************************************************************************)
VARIABLES scored

(***************************************************************************)
(* The trend stage of the pipeline.                                        *)
(*   trend_row  the row _compare_windows selected last, NoRow before       *)
(***************************************************************************)
VARIABLES trend_row

(***************************************************************************)
(* Observation of the monitoring task's broadcasts.                        *)
(*   delivered  per connection, the messages of broadcast_changes whose    *)
(*              send_json returned, in the order of their return: the      *)
(*              cycle, the position in the cycle's list, the message       *)
(***************************************************************************)
VARIABLES delivered

(***************************************************************************)
(* The detector's callbacks.                                               *)
(*   change_callbacks  ChangeDetector.change_callbacks                     *)
(*   notified          the callbacks the last check_for_changes call       *)
(*                     invoked, in the order of their invocation, each     *)
(*                     with the list it was passed                         *)
(*   outcome           how the last check_for_changes call ended:          *)
(*                     "returned", or the exception it raised              *)
(***************************************************************************)
VARIABLES change_callbacks, notified, outcome

cbVars == <<change_callbacks, notified, outcome>>

\* manager_calls: the number of direct calls of the manager's methods so far.
VARIABLES manager_calls

(***************************************************************************)
(* The GitHub client.                                                      *)
(*   _rate_limit_remaining  GitHubClient._rate_limit_remaining             *)
(*   _rate_limit_reset_at   GitHubClient._rate_limit_reset_at: None, a     *)
(*                          naive datetime or an aware one                 *)
(*   request                the top-level execute_query call: its position,*)
(*                          the retry_count of its innermost call, the     *)
(*                          HTTP attempts that have ended, the failures    *)
(*                          that were retried, what the last attempt got   *)
(*                          and how the call ended                         *)
(***************************************************************************)
VARIABLES _rate_limit_remaining, _rate_limit_reset_at, request

ghVars == <<_rate_limit_remaining, _rate_limit_reset_at, request>>

laterVars == <<upVars, scored, trend_row, delivered, cbVars, manager_calls, ghVars>>

ingestVars == <<pipeVars, connVars, laterVars>>

vars == <<detVars, created, hubVars, sysVars, hbVars, obsVars, ingestVars>>

\* ChangeDetector.__init__
FreshState ==
    [summaries |-> EmptyDict, rankings |-> EmptyDict, trends |-> EmptyDict,
     event_ids |-> {}, metrics |-> EmptyDict]

NoArguments ==
    [summaries |-> EmptyDict, rankings |-> EmptyDict, trends |-> EmptyDict,
     events |-> <<>>, metrics |-> EmptyDict]

DetectorInit ==
    /\ previous_state = FreshState
    /\ current = NoArguments
    /\ messages = <<>>
    /\ before = [state |-> FreshState, last_emitted |-> <<>>]
    /\ calls = 0
    /\ repeat = FALSE
    /\ new_event_count = [id \in EventIds |-> 0]
    /\ last_emitted = <<>>

SelectType(msgs, type) == SelectSeq(msgs, LAMBDA m : m.type = type)

\* check_for_changes, lines 78-98: the messages of the five detections in
\* order, and the state they leave.
Concatenate(ev, su, ra, tr, me) ==
    [messages |-> ev.messages \o su.messages \o ra.messages
                  \o tr.messages \o me.messages,
     state |-> [summaries |-> su.summaries, rankings |-> ra.rankings,
                trends |-> tr.trends, event_ids |-> ev.event_ids,
                metrics |-> me.metrics]]

\* The ranking detection reads the summaries the summary detection stored.
AfterSummaries(ev, su, state, args) ==
    Concatenate(ev, su,
                DetectRankingChanges(state.rankings, su.summaries, args.rankings),
                DetectTrendChanges([messages |-> <<>>, trends |-> state.trends],
                                   args.trends, KeysInOrder(DOMAIN args.trends)),
                DetectMetricsChanges(state.metrics, args.metrics))

DetectAll(state, args) ==
    AfterSummaries(
        DetectNewEvents([messages |-> <<>>, event_ids |-> state.event_ids],
                        args.events, 1),
        DetectSummaryChanges([messages |-> <<>>, summaries |-> state.summaries],
                             args.summaries, KeysInOrder(DOMAIN args.summaries)),
        state, args)

\* check_for_changes, lines 78-98, on the detector's state.
Detect(args) ==
       \E result \in {DetectAll(previous_state, args)} :
       LET emitted == SelectType(result.messages, "metrics_update") IN
       /\ previous_state' = result.state
       /\ messages' = result.messages
       /\ current' = args
       /\ before' = [state |-> previous_state, last_emitted |-> last_emitted]
       /\ calls' = IF calls < 2 THEN calls + 1 ELSE 2
       /\ repeat' = (calls > 0 /\ args = current)
       /\ new_event_count' =
              [id \in EventIds |->
                  LET n == new_event_count[id]
                           + Len(SelectSeq(result.messages,
                                 LAMBDA m : m.type = "new_event" /\ m.event_id = id))
                  IN IF n > 2 THEN 2 ELSE n]
       /\ last_emitted' = IF emitted # <<>> THEN <<emitted[Len(emitted)]>>
                          ELSE last_emitted

\* check_for_changes of a detector with no callback registered.
check_for_changes(current_summaries, current_rankings, current_trends, current_events, current_metrics) ==
    /\ Detect([summaries |-> current_summaries, rankings |-> current_rankings,
               trends |-> current_trends, events |-> current_events,
               metrics |-> current_metrics])
    /\ UNCHANGED <<ingestVars, created, hubVars, sysVars, hbVars, obsVars>>

(***************************************************************************)
(* The arguments the detector is driven with.                              *)
(***************************************************************************)
Dicts(K, V) == UNION {[S -> V] : S \in SUBSET K}

SeqsUpTo(S, n) == UNION {[1..k -> S] : k \in 0..n}

\* What PipelineManager._get_system_metrics returns.
ZeroMetrics ==
    [total_events |-> 0, active_repositories |-> 0, total_queries |-> 0]

\* An event dict: its content is fixed by its id; NoId is an event dict that
\* has no "event_id" key.
EventOf(id) ==
    IF id = NoId
    THEN [repo_full_name |-> 1, event_type |-> "commit"]
    ELSE [event_id |-> id, repo_full_name |-> ((id - 1) % NumRepos) + 1,
          event_type |-> "commit"]

EventBatches == SeqsUpTo({EventOf(id) : id \in EventIds \cup {NoId}}, MaxBatch)

\* Summary dicts: the empty dict has no "summary" key (its text is "").
SummaryDataSet ==
    {EmptyDict,
     [summary |-> "s1", activity_score |-> 1],
     [summary |-> "s2", activity_score |-> 2]}

\* Ranks inside the top list and the first rank outside it.
Ranks == {1, 2, TopSize + 1}

TrendDataSet ==
    {EmptyDict,
     [trend_status |-> "HOT", momentum |-> "STEADY"],
     [trend_status |-> "ACTIVE", momentum |-> "STEADY"],
     [trend_status |-> "HOT", momentum |-> "ACCELERATING"]}

MetricsSet ==
    {EmptyDict}
    \cup {[total_events |-> e] : e \in {MetricBase, MetricBase + 5}}
    \cup {[total_events |-> e, active_repositories |-> a, total_queries |-> q] :
             e \in {MetricBase, MetricBase + 5, MetricBase + 10, MetricBase + 11},
             a \in {0, 1}, q \in {0, 4, 5}}

(***************************************************************************)
(* The detector driven with event batches, summaries, rankings, trends    *)
(* and metrics: one specification per argument that varies.                *)
(***************************************************************************)
EventsCycle ==
    \E ce \in EventBatches :
        check_for_changes(EmptyDict, EmptyDict, EmptyDict, ce, ZeroMetrics)

SummariesCycle ==
    \E cs \in Dicts(Repos, SummaryDataSet) :
        check_for_changes(cs, EmptyDict, EmptyDict, <<>>, ZeroMetrics)

RankingsCycle ==
    \E cr \in Dicts(Repos, Ranks) :
        check_for_changes([r \in DOMAIN cr |-> [summary |-> "s1", activity_score |-> r]],
                          cr, EmptyDict, <<>>, ZeroMetrics)

TrendsCycle ==
    \E ct \in Dicts(Repos, TrendDataSet) :
        check_for_changes(EmptyDict, EmptyDict, ct, <<>>, ZeroMetrics)

MetricsCycle ==
    \E cm \in MetricsSet :
        check_for_changes(EmptyDict, EmptyDict, EmptyDict, <<>>, cm)

(***************************************************************************)
(* The detector with registered callbacks.  A callback is an async         *)
(* function; a call of it returns or raises an exception whose text is one *)
(* of ExceptionTexts.                                                      *)
(***************************************************************************)
Callbacks == 1..MaxCallbacks

ExceptionTexts == {"connection lost", "bad message {'type': 'new_event'}"}

Behaviours == {"returns"} \cup ExceptionTexts

\* The texts that str.format cannot format without arguments for their
\* fields: those with a replacement field or a single brace.
HasField(text) == text = "bad message {'type': 'new_event'}"

\* _notify_callbacks, lines 343-348: logger is a loguru logger
\* (core/logger.py line 67); called with keyword arguments it formats its
\* message, here the f-string with the exception's text already in it, with
\* str.format, which raises KeyError on a field it has no argument for.  The
\* call is inside the except clause, so the KeyError leaves the handler.
LoggerError(text) == IF HasField(text) THEN "KeyError" ELSE "logged"

\* register_callback, line 54.
register_callback(callback) ==
    /\ Len(change_callbacks) < MaxCallbacks
    /\ change_callbacks' = Append(change_callbacks, callback)
    /\ UNCHANGED <<notified, outcome>>
    /\ UNCHANGED <<detVars, created, hubVars, sysVars, hbVars, obsVars>>
    /\ UNCHANGED <<pipeVars, connVars, upVars, scored, trend_row, delivered, manager_calls, ghVars>>

\* _notify_callbacks, lines 340-348, from the k-th callback on: behaviour[k]
\* is what the k-th call does.
RECURSIVE _notify_callbacks(_, _, _, _, _)
_notify_callbacks(callbacks, msgs, behaviour, k, invoked) ==
    IF k > Len(callbacks) THEN [notified |-> invoked, outcome |-> "returned"]
    ELSE LET now == Append(invoked, [callback |-> callbacks[k], messages |-> msgs])
         IN IF behaviour[k] = "returns" \/ LoggerError(behaviour[k]) = "logged"
            THEN _notify_callbacks(callbacks, msgs, behaviour, k + 1, now)
            ELSE [notified |-> now, outcome |-> LoggerError(behaviour[k])]

\* check_for_changes, lines 78-104, of a detector with callbacks.
CheckForChanges(data, behaviour) ==
    /\ Detect(data)
    /\ \E result \in {IF messages' = <<>>
                       THEN [notified |-> <<>>, outcome |-> "returned"]
                       ELSE _notify_callbacks(change_callbacks, messages',
                                              behaviour, 1, <<>>)} :
           /\ notified' = result.notified
           /\ outcome' = result.outcome
    /\ UNCHANGED <<change_callbacks, created, hubVars, sysVars, hbVars, obsVars>>
    /\ UNCHANGED <<pipeVars, connVars, upVars, scored, trend_row, delivered, manager_calls, ghVars>>

\* ConnectionManager.__init__; no WebSocket object exists yet.
HubInit ==
    /\ active_connections = <<>>
    /\ connection_info = EmptyDict
    /\ client_state = [ws \in Sockets |-> "CONNECTING"]
    /\ transport_up = [ws \in Sockets |-> TRUE]
    /\ handler = [ws \in Sockets |-> "new"]
    /\ broadcast = IdleFrame
    /\ broadcasts = 0
    /\ pruned = {}

\* lifespan, lines 55-77: the pipeline initialised, the monitoring task
\* created; nothing ingested yet.
SystemInit ==
    /\ ingested = <<>>
    /\ monitor = [pc |-> "sleeping", queue |-> <<>>]
    /\ cycles = 0
    /\ cycle_ingested = <<>>
    /\ broadcast_log = <<>>

\* No handler has created its heartbeat task; no broadcast call was made.
HeartbeatInit ==
    /\ heartbeat = [ws \in Sockets |-> "none"]
    /\ beats = 0
    /\ late_attempt = {}
    /\ late_heartbeat = {}
    /\ sent_to = <<>>
    /\ send_failed = <<>>
    /\ steady = {}
    /\ write_failed = {}

\* Time period durations (in hours).
Windows == {"1h", "24h", "7d"}

WINDOW_DURATIONS ==
    [w \in Windows |-> CASE w = "1h" -> 1 [] w = "24h" -> 24 [] w = "7d" -> 168]

\* Event types we track.
EventType == {"commit", "pull_request", "issue", "release"}

\* The repositories the connector is constructed with, its lookback and its
\* poll interval, in hours.
repositories == <<1, 2>>
lookback_hours == 1
poll_interval == 1

\* An empty events table; the aggregates of an empty table have no rows.
PipelineInit ==
    /\ events_table = EmptyBag
    /\ repos_window = [w \in Windows |-> EmptyDict]
    /\ utcnow = 0
    /\ ticks = 0

NewPoll ==
    [index |-> 1, all_events |-> <<>>,
     acceptable |-> [i \in DOMAIN repositories |-> 0]]

\* GitHubConnector.__init__ and _initialize_fetch_times.
ConnectorInit ==
    /\ last_fetch_times = [i \in DOMAIN repositories |-> 0 - lookback_hours]
    /\ poll = NewPoll
    /\ yielded = <<>>
    /\ polls = 0

NoRow == EmptyDict

\* Nothing exists upstream yet and nothing has been handed over.
UpstreamInit ==
    /\ github = EmptyDict
    /\ activity = 0
    /\ handed = <<>>

\* No execute_query call.
NoRequest ==
    [pc |-> "idle", retry_count |-> 0, attempts |-> 0, failures |-> <<>>,
     last |-> "None", result |-> "None"]

\* GitHubClient.__init__, lines 51-52; no execute_query call was made yet.
ClientInit ==
    /\ _rate_limit_remaining = NoCount
    /\ _rate_limit_reset_at = "None"
    /\ request = NoRequest

\* ChangeDetector.__init__, line 44; no call was made yet.
CallbacksInit ==
    /\ change_callbacks = <<>>
    /\ notified = <<>>
    /\ outcome = "none"

UnitInit ==
    /\ DetectorInit /\ created = <<>> /\ HubInit /\ SystemInit /\ HeartbeatInit
    /\ PipelineInit /\ ConnectorInit /\ UpstreamInit
    /\ delivered = [ws \in Sockets |-> <<>>]
    /\ CallbacksInit
    /\ manager_calls = 0
    /\ ClientInit
    /\ scored = NoRow
    /\ trend_row = NoRow

SpecEvents == UnitInit /\ [][EventsCycle]_vars
SpecSummaries == UnitInit /\ [][SummariesCycle]_vars
SpecRankings == UnitInit /\ [][RankingsCycle]_vars
SpecTrends == UnitInit /\ [][TrendsCycle]_vars
SpecMetrics == UnitInit /\ [][MetricsCycle]_vars

(***************************************************************************)
(* create_ranking_change_message called directly with every pair of an    *)
(* old rank (or None) and a new rank up to MaxRank.                        *)
(***************************************************************************)
CreateRankingChange ==
    /\ \E old_rank \in {NoRank} \cup (1..MaxRank), new_rank \in 1..MaxRank :
           created' = <<create_ranking_change_message(1, old_rank, new_rank, 0)>>
    /\ UNCHANGED <<ingestVars, detVars, hubVars, sysVars, hbVars, obsVars>>

SpecRank == UnitInit /\ [][CreateRankingChange]_vars


(***************************************************************************)
(* The connection handler websocket_endpoint and the transport.            *)
(***************************************************************************)
Hub == [active_connections |-> active_connections,
        connection_info |-> connection_info]

\* websocket_endpoint, line 214: manager.connect once accept() has returned.
\* WebSocket objects are numbered in the order in which they are accepted.
Connect(ws) ==
    /\ handler[ws] = "new"
    /\ \A other \in Sockets : other < ws => handler[other] # "new"
    /\ client_state' = [client_state EXCEPT ![ws] = "CONNECTED"]
    /\ active_connections' = Register(Hub, ws).active_connections
    /\ connection_info' = Register(Hub, ws).connection_info
    /\ handler' = [handler EXCEPT ![ws] = "welcome"]
    /\ UNCHANGED <<transport_up, broadcast, broadcasts, pruned>>
    /\ UNCHANGED <<ingestVars, detVars, created, sysVars, hbVars, obsVars>>

send_json_AlwaysWrites(up, ws) == TRUE

\* websocket.send_json: the write succeeds while the transport is up and
\* raises once it is down.
send_json(up, ws) == up[ws]

send_personal_message_CountsAttempts(info, states, up, websocket) ==
    IF states[websocket] = "CONNECTED" THEN CountSent(info, websocket) ELSE info

\* send_personal_message, lines 92-102: connection_info after the call.  A
\* websocket that is not CONNECTED is not written to; a write that raises is
\* swallowed.
send_personal_message(info, states, up, websocket) ==
    IF states[websocket] = "CONNECTED" /\ send_json(up, websocket)
    THEN CountSent(info, websocket)
    ELSE info

\* send_personal_message, lines 93-102, returning from the welcome send
\* (websocket_endpoint, lines 218-227): a failed write is swallowed.  The
\* handler then creates its heartbeat task (line 230) and waits in
\* receive_text.
WelcomeReturns(ws) ==
    /\ handler[ws] = "welcome"
    /\ connection_info' =
           send_personal_message(connection_info, client_state, transport_up, ws)
    /\ handler' = [handler EXCEPT ![ws] = "receiving"]
    /\ heartbeat' = [heartbeat EXCEPT ![ws] = "sleeping"]
    /\ UNCHANGED <<active_connections, client_state, transport_up, broadcast,
                   broadcasts, pruned>>
    /\ UNCHANGED <<ingestVars, detVars, created, sysVars, beats, late_attempt, late_heartbeat,
                   obsVars>>

\* A connection that stops being registered, CONNECTED or writable while a
\* broadcast call is in progress is no longer steady for that call.
Unsteady(ws) ==
    /\ steady' = IF broadcast.pc = "sending" THEN steady \ {ws} ELSE steady
    /\ UNCHANGED <<sent_to, send_failed, write_failed>>

\* The WebSocket object learns that the peer has closed: client_state is
\* state of the external WebSocket object and may change at any time after
\* accept.
ClientClose(ws) ==
    /\ client_state[ws] = "CONNECTED"
    /\ client_state' = [client_state EXCEPT ![ws] = "DISCONNECTED"]
    /\ Unsteady(ws)
    /\ UNCHANGED <<active_connections, connection_info, transport_up, handler,
                   broadcast, broadcasts, pruned>>
    /\ UNCHANGED <<ingestVars, detVars, created, sysVars, hbVars>>

\* The transport of a connection goes down: from now on send_json raises.
TransportBreak(ws) ==
    /\ client_state[ws] # "CONNECTING"
    /\ transport_up[ws]
    /\ transport_up' = [transport_up EXCEPT ![ws] = FALSE]
    /\ Unsteady(ws)
    /\ UNCHANGED <<active_connections, connection_info, client_state, handler,
                   broadcast, broadcasts, pruned>>
    /\ UNCHANGED <<ingestVars, detVars, created, sysVars, hbVars>>

cancel_NoEffect(tasks, ws) == tasks

\* heartbeat_task.cancel(): CancelledError is thrown into the task where it
\* is suspended, in the sleep or in the send_json of send_personal_message
\* (whose except Exception lets it pass), and _heartbeat_loop returns.
cancel(tasks, ws) == [tasks EXCEPT ![ws] = "ended"]

\* websocket_endpoint, lines 245-255: receive_text raised or the handler
\* task was cancelled in it, the loop is left and the finally block cancels
\* the heartbeat task and runs manager.disconnect.
HandlerExit(ws) ==
    /\ handler[ws] = "receiving"
    /\ active_connections' = disconnect(Hub, ws).active_connections
    /\ connection_info' = disconnect(Hub, ws).connection_info
    /\ handler' = [handler EXCEPT ![ws] = "exited"]
    /\ heartbeat' = cancel(heartbeat, ws)
    /\ Unsteady(ws)
    /\ UNCHANGED <<client_state, transport_up, broadcast, broadcasts, pruned>>
    /\ UNCHANGED <<ingestVars, detVars, created, sysVars, beats, late_attempt, late_heartbeat>>

\* websocket_endpoint, lines 216-227 and 251-255: the handler task is
\* cancelled while it is suspended in the welcome send.  CancelledError is
\* no Exception, so send_personal_message lets it pass; the finally block
\* evaluates heartbeat_task, which has not been assigned yet, and the
\* UnboundLocalError leaves the handler before manager.disconnect.
CancelledInWelcome(ws) ==
    /\ handler[ws] = "welcome"
    /\ handler' = [handler EXCEPT ![ws] = "exited"]
    /\ UNCHANGED <<active_connections, connection_info, client_state, transport_up,
                   broadcast, broadcasts, pruned>>
    /\ UNCHANGED <<ingestVars, detVars, created, sysVars, hbVars, obsVars>>

(***************************************************************************)
(* _heartbeat_loop.                                                        *)
(***************************************************************************)
\* _heartbeat_loop, lines 267-278: the sleep is over; a CONNECTED websocket
\* is sent a heartbeat through send_personal_message (suspended in
\* send_json), otherwise the loop is left.
HeartbeatWakes(ws) ==
    /\ heartbeat[ws] = "sleeping"
    /\ client_state[ws] = "CONNECTED" => beats < MaxHeartbeats
    /\ IF client_state[ws] = "CONNECTED"
       THEN /\ heartbeat' = [heartbeat EXCEPT ![ws] = "sending"]
            /\ beats' = beats + 1
            /\ late_attempt' = IF ws \in write_failed
                               THEN late_attempt \cup {ws}
                               ELSE late_attempt
       ELSE /\ heartbeat' = [heartbeat EXCEPT ![ws] = "ended"]
            /\ UNCHANGED <<beats, late_attempt>>
    /\ UNCHANGED late_heartbeat
    /\ UNCHANGED <<ingestVars, detVars, created, hubVars, sysVars, obsVars>>

\* send_personal_message, lines 94-102, called by _heartbeat_loop: send_json
\* returns (the heartbeat is delivered and counted) or raises (swallowed);
\* the loop sleeps again.
HeartbeatSendReturns(ws) ==
    /\ heartbeat[ws] = "sending"
    /\ heartbeat' = [heartbeat EXCEPT ![ws] = "sleeping"]
    /\ connection_info' =
           send_personal_message(connection_info, client_state, transport_up, ws)
    /\ late_heartbeat' = IF /\ client_state[ws] = "CONNECTED"
                            /\ send_json(transport_up, ws)
                            /\ ws \in late_attempt
                         THEN late_heartbeat \cup {ws}
                         ELSE late_heartbeat
    /\ UNCHANGED <<active_connections, client_state, transport_up, handler,
                   broadcast, broadcasts, pruned>>
    /\ UNCHANGED <<ingestVars, detVars, created, sysVars, beats, late_attempt, obsVars>>

(***************************************************************************)
(* ConnectionManager.broadcast and its callers.                            *)
(***************************************************************************)
Land_FireAndForget(run, suspended) ==
    /\ active_connections' = run.hub.active_connections
    /\ connection_info' = run.hub.connection_info
    /\ broadcast' = run.b
    /\ pruned' = run.pruned
    /\ broadcast_log' = run.log
    /\ monitor' = [pc |-> "sleeping", queue |-> <<>>]

\* The state a run leaves; suspended is the monitoring task's position if
\* the run is suspended in a send_json.
Land(run, suspended) ==
    /\ active_connections' = run.hub.active_connections
    /\ connection_info' = run.hub.connection_info
    /\ broadcast' = run.b
    /\ pruned' = run.pruned
    /\ broadcast_log' = run.log
    /\ monitor' = IF run.b.pc = "done" THEN [pc |-> "sleeping", queue |-> <<>>]
                  ELSE suspended

\* The connections a broadcast call that begins now finds registered,
\* CONNECTED, writable and not excluded.
SteadyAtStart(exclude) ==
    {ws \in Range(active_connections) \ exclude :
         client_state[ws] = "CONNECTED" /\ transport_up[ws]}

\* A broadcast call begins in this step: nothing is sent yet when it
\* suspends or returns.
Begin(exclude) ==
    /\ sent_to' = <<>>
    /\ send_failed' = <<>>
    /\ steady' = SteadyAtStart(exclude)
    /\ UNCHANGED write_failed

\* broadcast_update(message), lines 331-344, called from outside the
\* monitoring task, up to the first send_json or the return; it passes no
\* exclude set.
BroadcastCall ==
    /\ broadcast.pc \in {"idle", "done"}
    /\ broadcasts < MaxBroadcasts
    /\ broadcasts' = broadcasts + 1
    /\ \E run \in {Advance([hub |-> Hub,
                            b |-> StartFrame(broadcasts + 1, {}),
                            queue |-> <<>>,
                            log |-> <<broadcasts + 1>>,
                            pruned |-> pruned], client_state)} :
           Land(run, monitor)
    /\ Begin({})
    /\ UNCHANGED <<client_state, transport_up, handler>>
    /\ UNCHANGED <<ingestVars, detVars, created, ingested, cycles, cycle_ingested, hbVars>>

\* manager.broadcast(message, exclude) called directly, up to the first
\* send_json or the return.
BroadcastExcluding(exclude) ==
    /\ broadcast.pc \in {"idle", "done"}
    /\ broadcasts < MaxDirectCalls
    /\ broadcasts' = broadcasts + 1
    /\ \E run \in {Advance([hub |-> Hub,
                            b |-> StartFrame(broadcasts + 1, exclude),
                            queue |-> <<>>,
                            log |-> <<broadcasts + 1>>,
                            pruned |-> pruned], client_state)} :
           Land(run, monitor)
    /\ Begin(exclude)
    /\ UNCHANGED <<client_state, transport_up, handler>>
    /\ UNCHANGED <<ingestVars, detVars, created, ingested, cycles, cycle_ingested, hbVars>>

\* broadcast, lines 125-138: send_json returns or raises, and the call runs
\* on to the next send_json or to its return (and broadcast_changes to the
\* next message).
SendJsonReturns ==
    /\ broadcast.pc = "sending"
    /\ LET ws == broadcast.target
           sent == transport_up[ws]
           b == IF sent
                THEN [broadcast EXCEPT !.sent_count = @ + 1]
                ELSE [broadcast EXCEPT !.failed_connections = Append(@, ws)]
           hub == [active_connections |-> active_connections,
                   connection_info |->
                       IF sent THEN CountSent(connection_info, ws)
                       ELSE connection_info]
       IN \E run \in {Advance([hub |-> hub, b |-> b, queue |-> monitor.queue,
                               log |-> broadcast_log, pruned |-> pruned],
                              client_state)} :
              /\ Land(run, [monitor EXCEPT !.queue = run.queue])
              /\ IF Len(run.log) > Len(broadcast_log)
                 THEN /\ sent_to' = <<>>
                      /\ send_failed' = <<>>
                      /\ steady' = {c \in Range(run.hub.active_connections) :
                                        client_state[c] = "CONNECTED"
                                        /\ transport_up[c]}
                 ELSE /\ sent_to' = IF sent THEN Append(sent_to, ws) ELSE sent_to
                      /\ send_failed' = IF sent THEN send_failed
                                        ELSE Append(send_failed, ws)
                      /\ steady' = steady
              /\ write_failed' = IF sent THEN write_failed
                                 ELSE write_failed \cup {ws}
              /\ delivered' =
                     IF sent /\ monitor.pc = "broadcasting"
                     THEN [delivered EXCEPT ![ws] =
                              Append(@, <<cycles, Len(broadcast_log),
                                          broadcast.message>>)]
                     ELSE delivered
    /\ UNCHANGED <<client_state, transport_up, handler, broadcasts>>
    /\ UNCHANGED <<detVars, created, ingested, cycles, cycle_ingested, hbVars>>
    /\ UNCHANGED <<pipeVars, connVars, upVars, scored, trend_row, cbVars, manager_calls, ghVars>>

(***************************************************************************)
(* core/github_client.py: execute_query.  An HTTP attempt ends with a      *)
(* response or with an httpx exception.                                    *)
(***************************************************************************)
\* What client.post does: a response with a status code or an exception.
\* 404 stands for the statuses raise_for_status raises on.
Statuses == {200, 401, 403, 404, 500, 503}

Raises == {"TimeoutException", "RequestError"}

\* The X-RateLimit-Remaining header of a response, None if it has none: a
\* value at most 10 and one above RATE_LIMIT_BUFFER.
Remainings == {NoCount, 5, 5000}

\* The text of a status code.
StatusText(status) ==
    CASE status = 200 -> "200" [] status = 401 -> "401" [] status = 403 -> "403"
      [] status = 404 -> "404" [] status = 500 -> "500" [] status = 503 -> "503"

\* The body of a 200 response: data, data with a rateLimit object (5
\* remaining, and a resetAt that is parsed into an aware datetime), or
\* errors.
Bodies == {"data", "data and rateLimit", "errors"}

CanRetry_Always(retry_count) == TRUE

\* lines 124, 162, 169: retry_count < self.MAX_RETRIES.
CanRetry(retry_count) == retry_count < MAX_RETRIES

\* _check_rate_limit, lines 181-201: with at most 10 requests remaining it
\* compares _rate_limit_reset_at with the naive utcnow(); an aware
\* _rate_limit_reset_at (line 219) makes the comparison raise TypeError.
\* Otherwise it returns, after a sleep if the reset lies in the future.
_check_rate_limit(remaining, reset_at) ==
    IF remaining # NoCount /\ remaining < RATE_LIMIT_BUFFER /\ remaining <= 10
       /\ reset_at = "aware"
    THEN "TypeError" ELSE "returns"

\* The call has ended: returned or raised.
Ended(req, result) == [req EXCEPT !.pc = "ended", !.result = result]

\* lines 125-126, 163-164, 170-171: the sleep and the recursive call, up to
\* its client.post; its _check_rate_limit may raise.
Retry(req, failure, remaining, reset_at) ==
    IF _check_rate_limit(remaining, reset_at) = "TypeError"
    THEN Ended([req EXCEPT !.failures = Append(@, failure)], "TypeError")
    ELSE [req EXCEPT !.retry_count = @ + 1, !.failures = Append(@, failure)]

\* lines 100-158: what a response leads to.
OnResponse(req, status, limited, body, remaining, reset_at) ==
    IF status = 401 THEN Ended(req, "GitHubAPIError")
    ELSE IF status = 403
    THEN Ended(req, IF limited THEN "RateLimitError" ELSE "GitHubAPIError")
    ELSE IF status >= 500
    THEN IF CanRetry(req.retry_count)
         THEN Retry(req, StatusText(status), remaining, reset_at)
         ELSE Ended(req, "GitHubAPIError")
    ELSE IF status = 404 THEN Ended(req, "HTTPStatusError")
    ELSE IF body = "errors" THEN Ended(req, "GitHubAPIError")
    ELSE Ended(req, "data")

\* lines 160-172: what an httpx exception leads to.  logger.error formats
\* its message when it is called with keyword arguments (line 168), and
\* raises KeyError if the exception's text has a brace.
OnException(req, exception, braces, remaining, reset_at) ==
    IF exception = "RequestError" /\ braces THEN Ended(req, "KeyError")
    ELSE IF CanRetry(req.retry_count)
    THEN Retry(req, exception, remaining, reset_at)
    ELSE Ended(req, "ConnectionError")

ClientFrame ==
    /\ UNCHANGED <<detVars, created, hubVars, sysVars, hbVars, obsVars>>
    /\ UNCHANGED <<pipeVars, connVars, upVars, scored, trend_row, delivered, cbVars, manager_calls>>

\* execute_query called with retry_count 0, lines 74-91: _check_rate_limit
\* and the code up to client.post.
execute_query ==
    /\ request.pc \in {"idle", "ended"}
    /\ request' =
           IF _check_rate_limit(_rate_limit_remaining, _rate_limit_reset_at)
                  = "TypeError"
           THEN Ended(NoRequest, "TypeError")
           ELSE [NoRequest EXCEPT !.pc = "posting"]
    /\ UNCHANGED <<_rate_limit_remaining, _rate_limit_reset_at>>
    /\ ClientFrame

\* client.post returns a response, lines 98-158 (and 74-91 of the
\* recursive call): the rate limit is updated from the headers, lines
\* 205-210, and from the data, lines 147-148.
PostReturns(status, header, limited, body) ==
    /\ request.pc = "posting"
    /\ LET remaining == IF header # NoCount THEN header ELSE _rate_limit_remaining
           reset_at == IF header # NoCount THEN "naive" ELSE _rate_limit_reset_at
           req == OnResponse([request EXCEPT !.attempts = @ + 1,
                                             !.last = StatusText(status)],
                             status, limited, body, remaining, reset_at)
           parsed == req.result = "data" /\ body = "data and rateLimit"
       IN /\ request' = req
          /\ _rate_limit_remaining' = IF parsed THEN 5 ELSE remaining
          /\ _rate_limit_reset_at' = IF parsed THEN "aware" ELSE reset_at
    /\ ClientFrame

\* client.post raises, lines 160-172 (and 74-91 of the recursive call).
PostRaises(exception, braces) ==
    /\ request.pc = "posting"
    /\ request' = OnException([request EXCEPT !.attempts = @ + 1,
                                              !.last = exception],
                              exception, braces,
                              _rate_limit_remaining, _rate_limit_reset_at)
    /\ UNCHANGED <<_rate_limit_remaining, _rate_limit_reset_at>>
    /\ ClientFrame

(***************************************************************************)
(* The manager's methods called directly, by any caller and for any        *)
(* WebSocket object, for a bounded number of calls.                        *)
(***************************************************************************)
ManagerCall ==
    /\ manager_calls < MaxManagerCalls
    /\ manager_calls' = manager_calls + 1

ManagerFrame ==
    /\ UNCHANGED <<detVars, created, sysVars, hbVars>>
    /\ UNCHANGED <<pipeVars, connVars, upVars, scored, trend_row, delivered, cbVars, ghVars>>

\* connect, lines 35-59, for a websocket that is not registered: accept()
\* returns and the websocket is registered.  WebSocket objects are numbered
\* in the order in which they are first connected.
ManagerConnect(ws) ==
    /\ ManagerCall
    /\ ws \notin Range(active_connections)
    /\ \A other \in Sockets : other < ws => client_state[other] # "CONNECTING"
    /\ client_state' = [client_state EXCEPT ![ws] = "CONNECTED"]
    /\ active_connections' = Register(Hub, ws).active_connections
    /\ connection_info' = Register(Hub, ws).connection_info
    /\ UNCHANGED <<transport_up, handler, broadcast, broadcasts, pruned, obsVars>>
    /\ ManagerFrame

\* disconnect, lines 61-83, for any websocket, registered or not.
ManagerDisconnect(ws) ==
    /\ ManagerCall
    /\ active_connections' = disconnect(Hub, ws).active_connections
    /\ connection_info' = disconnect(Hub, ws).connection_info
    /\ Unsteady(ws)
    /\ UNCHANGED <<client_state, transport_up, handler, broadcast, broadcasts,
                   pruned>>
    /\ ManagerFrame

\* send_personal_message, lines 85-102, for any websocket.
ManagerSendTo(ws) ==
    /\ ManagerCall
    /\ connection_info' =
           send_personal_message(connection_info, client_state, transport_up, ws)
    /\ UNCHANGED <<active_connections, client_state, transport_up, handler,
                   broadcast, broadcasts, pruned, obsVars>>
    /\ ManagerFrame

\* broadcast, lines 104-150, called through broadcast_update, up to its
\* first send_json or its return.
ManagerBroadcast ==
    /\ ManagerCall
    /\ broadcast.pc \in {"idle", "done"}
    /\ broadcasts < MaxBroadcasts
    /\ broadcasts' = broadcasts + 1
    /\ \E run \in {Advance([hub |-> Hub,
                            b |-> StartFrame(broadcasts + 1, {}),
                            queue |-> <<>>,
                            log |-> <<broadcasts + 1>>,
                            pruned |-> pruned], client_state)} :
           Land(run, monitor)
    /\ Begin({})
    /\ UNCHANGED <<client_state, transport_up, handler>>
    /\ UNCHANGED <<detVars, created, ingested, cycles, cycle_ingested, hbVars>>
    /\ UNCHANGED <<pipeVars, connVars, upVars, scored, trend_row, delivered, cbVars, ghVars>>

(***************************************************************************)
(* pipeline_manager.py and main.py: the pipeline and the monitoring cycle. *)
(***************************************************************************)
EventTypes == {"commit"}

\* The connector yields an event to the pipeline's events table.
\* Repositories are numbered in the order of their first event.
Ingest(repo, type) ==
    /\ Len(ingested) < MaxIngested
    /\ \A earlier \in Repos :
           earlier < repo =>
               \E i \in DOMAIN ingested : ingested[i].repo_full_name = earlier
    /\ ingested' = Append(ingested,
                          [id |-> Len(ingested) + 1, repo_full_name |-> repo,
                           event_type |-> type])
    /\ UNCHANGED <<monitor, cycles, cycle_ingested, broadcast_log>>
    /\ UNCHANGED <<ingestVars, detVars, created, hubVars, hbVars, obsVars>>

\* PipelineManager.get_current_data of a running pipeline, lines 166-202:
\* the five getters return fixed values whatever the pipeline's tables hold.
get_current_data(pipeline_events) ==
    [summaries |-> EmptyDict, rankings |-> EmptyDict, trends |-> EmptyDict,
     events |-> <<>>, metrics |-> ZeroMetrics]

\* _monitor_pipeline_changes, lines 115-130, after the sleep: the data is
\* read, check_for_changes detects, and if there are messages
\* _notify_callbacks runs broadcast_changes up to its first send_json or to
\* its return.
Cycle(data) ==
    /\ monitor.pc = "sleeping"
    /\ broadcast.pc \in {"idle", "done"}
    /\ Detect(data)
    /\ cycles' = IF cycles < MaxCycles THEN cycles + 1 ELSE MaxCycles
    /\ cycle_ingested' = ingested
    /\ IF messages' = <<>>
       THEN /\ broadcast_log' = <<>>
            /\ UNCHANGED <<active_connections, connection_info, broadcast,
                           pruned, monitor, obsVars>>
       ELSE \E for \in {ForMessageIn(messages')} :
            \E run \in {Advance([hub |-> Hub,
                                 b |-> StartFrame(for.message, {}),
                                 queue |-> for.rest,
                                 log |-> <<for.message>>,
                                 pruned |-> pruned], client_state)} :
               /\ Land(run, [pc |-> "broadcasting", queue |-> run.queue])
               /\ Begin({})
    /\ UNCHANGED <<client_state, transport_up, handler, broadcasts>>
    /\ UNCHANGED <<ingestVars, created, ingested, hbVars>>

MonitorCycle == Cycle(get_current_data(ingested))

\* The data a pipeline whose getters read its tables may return in a cycle:
\* one repository with one of two summaries and ranks, constant metrics.
PipelineData ==
    {[summaries |-> [r \in {1} |-> [summary |-> text, activity_score |-> 1]],
      rankings |-> [r \in {1} |-> rank],
      trends |-> EmptyDict, events |-> <<>>, metrics |-> ZeroMetrics] :
        text \in {"s1", "s2"}, rank \in {1, 2}}

\* A monitoring cycle on such data, for a bounded number of cycles.
DataCycle(data) ==
    /\ cycles < MaxCycles
    /\ Cycle(data)

\* _monitor_pipeline_changes, lines 113-141: a cycle in which
\* get_current_data returns empty data with metrics None.  The first four
\* detections find nothing; _detect_metrics_changes raises AttributeError on
\* current_metrics.get (change_detector.py line 291); the exception leaves
\* check_for_changes and the while loop, is logged by the except clause
\* around the loop (line 140) and the task returns.
CycleRaises ==
    /\ monitor.pc = "sleeping"
    /\ cycles < MaxCycles
    /\ cycles' = cycles + 1
    /\ monitor' = [pc |-> "ended", queue |-> <<>>]
    /\ UNCHANGED <<ingested, cycle_ingested, broadcast_log>>
    /\ UNCHANGED <<ingestVars, detVars, created, hubVars, hbVars, obsVars>>

Connections ==
    \E ws \in Sockets :
        \/ Connect(ws)
        \/ WelcomeReturns(ws)
        \/ ClientClose(ws)
        \/ TransportBreak(ws)
        \/ HandlerExit(ws)

\* The hub with its connections and a caller of broadcast_update.
HubNext ==
    \/ Connections
    \/ BroadcastCall
    \/ SendJsonReturns

SpecHub == UnitInit /\ [][HubNext]_vars

\* The exclude sets a caller of broadcast passes: nobody, or the connection
\* that was accepted second, which stands first or later in the list.
Excludes == {{}, {2}}

\* The hub with a caller of broadcast that passes an exclude set.
BroadcastNext ==
    \/ Connections
    \/ \E exclude \in Excludes : BroadcastExcluding(exclude)
    \/ SendJsonReturns

SpecBroadcast == UnitInit /\ [][BroadcastNext]_vars

Heartbeats ==
    \E ws \in Sockets :
        \/ HeartbeatWakes(ws)
        \/ HeartbeatSendReturns(ws)

\* The hub with its connections, their heartbeat tasks and a caller of
\* broadcast; the connections end by a transport failure, no peer closes.
HeartbeatNext ==
    \/ \E ws \in Sockets :
           \/ Connect(ws)
           \/ WelcomeReturns(ws)
           \/ TransportBreak(ws)
           \/ HandlerExit(ws)
    \/ Heartbeats
    \/ BroadcastExcluding({})
    \/ SendJsonReturns

SpecHeartbeat == UnitInit /\ [][HeartbeatNext]_vars

\* The connection handlers with their heartbeat tasks: peers close,
\* transports break, handlers leave their loop or are cancelled.
HandlerNext ==
    \/ Connections
    \/ \E ws \in Sockets : CancelledInWelcome(ws)
    \/ Heartbeats

SpecHandler == UnitInit /\ [][HandlerNext]_vars

\* The detector with callbacks registered at any time and cycles on the
\* data of a pipeline.
CallbacksNext ==
    \/ \E callback \in Callbacks : register_callback(callback)
    \/ \E data \in PipelineData, behaviour \in [Callbacks -> Behaviours] :
           CheckForChanges(data, behaviour)

SpecCallbacks == UnitInit /\ [][CallbacksNext]_vars

\* The manager driven by direct calls of its methods, with transports that
\* break.
ManagerNext ==
    \/ \E ws \in Sockets :
           \/ ManagerConnect(ws)
           \/ ManagerDisconnect(ws)
           \/ ManagerSendTo(ws)
           \/ TransportBreak(ws)
    \/ ManagerBroadcast
    \/ SendJsonReturns

SpecManager == UnitInit /\ [][ManagerNext]_vars

\* The GitHub client with a caller of execute_query and an API that answers
\* or fails in every way.
ClientNext ==
    \/ execute_query
    \/ \E status \in Statuses, header \in Remainings, limited \in BOOLEAN,
          body \in Bodies : PostReturns(status, header, limited, body)
    \/ \E exception \in Raises, braces \in BOOLEAN :
           PostRaises(exception, braces)

SpecClient == UnitInit /\ [][ClientNext]_vars

\* The monitoring task on a pipeline that returns data, with connections
\* that stay open.
MonitorNext ==
    \/ \E data \in PipelineData : DataCycle(data)
    \/ CycleRaises
    \/ \E ws \in Sockets :
           \/ Connect(ws)
           \/ WelcomeReturns(ws)
    \/ SendJsonReturns

SpecMonitor == UnitInit /\ [][MonitorNext]_vars

\* The running application: the pipeline, the monitoring task, the hub.
Next ==
    \/ \E repo \in Repos, type \in EventTypes : Ingest(repo, type)
    \/ MonitorCycle
    \/ Connections
    \/ SendJsonReturns

Spec == UnitInit /\ [][Next]_vars

(***************************************************************************)
(* The temporal windows (pipelines/temporal_windows.py).                   *)
(***************************************************************************)
\* The number of rows of a table among those that pass a test (rows, a set of
\* distinct rows of the table): pw.reducers.count(), and
\* pw.reducers.sum(pw.if_else(test, 1, 0)).
CountRows(table, rows) == BagCardinality([row \in rows |-> table[row]])

\* pw.reducers.max over the timestamps of the rows of one repository.
MaxTimestamp(table, repo) ==
    CHOOSE t \in {r.timestamp : r \in {x \in DOMAIN table : x.repo_full_name = repo}} :
        \A r \in DOMAIN table : r.repo_full_name = repo => r.timestamp <= t

\* TemporalWindows.apply_windows: the columns are renamed and the timestamp
\* is parsed; every window is given the whole events table.
apply_windows(table) == [w \in Windows |-> table]

\* TemporalWindows.aggregate_by_window: group by repository and reduce.
aggregate_by_window(window, windowed_events) ==
    [repo \in {r.repo_full_name : r \in DOMAIN windowed_events} |->
        LET group == {r \in DOMAIN windowed_events : r.repo_full_name = repo} IN
        [repo_full_name |-> repo,
         window_period |-> window,
         events_in_window |-> CountRows(windowed_events, group),
         commits_in_window |->
             CountRows(windowed_events, {r \in group : r.event_type = "commit"}),
         prs_in_window |->
             CountRows(windowed_events, {r \in group : r.event_type = "pull_request"}),
         issues_in_window |->
             CountRows(windowed_events, {r \in group : r.event_type = "issue"}),
         releases_in_window |->
             CountRows(windowed_events, {r \in group : r.event_type = "release"}),
         latest_event_time |-> MaxTimestamp(windowed_events, repo)]]

\* create_temporal_analysis: the aggregate of every window ('repos_<window>').
create_temporal_analysis(table) ==
    [w \in Windows |-> aggregate_by_window(w, apply_windows(table)[w])]

\* A connector hands one event that has just occurred to Pathway (self.next
\* and self.commit), and the windowed aggregates follow the events table.
YieldEvent(repo, type) ==
    /\ BagCardinality(events_table) < MaxRows
    /\ \E table \in {events_table (+) SetToBag({[repo_full_name |-> repo,
                                                 event_type |-> type,
                                                 timestamp |-> utcnow]})} :
           /\ events_table' = table
           /\ repos_window' = create_temporal_analysis(table)
    /\ UNCHANGED <<utcnow, ticks, connVars, laterVars>>
    /\ UNCHANGED <<detVars, created, hubVars, sysVars, hbVars, obsVars>>

\* Time passes: a little more than one of the window durations.
Elapses == {WINDOW_DURATIONS[w] + 1 : w \in Windows}

Tick(hours) ==
    /\ ticks < MaxTicks
    /\ utcnow' = utcnow + hours
    /\ ticks' = ticks + 1
    /\ UNCHANGED <<events_table, repos_window, connVars, laterVars>>
    /\ UNCHANGED <<detVars, created, hubVars, sysVars, hbVars, obsVars>>

WindowsNext ==
    \/ \E repo \in Repos, type \in EventType : YieldEvent(repo, type)
    \/ \E hours \in Elapses : Tick(hours)

SpecWindows == UnitInit /\ [][WindowsNext]_vars

(***************************************************************************)
(* The GitHub connector (connectors/github_connector.py) and the event     *)
(* transformer (connectors/event_transformer.py).  A timestamp string is   *)
(* [form, t]: form "naive" is an ISO timestamp without an offset, "Z" one  *)
(* with the Z suffix GitHub writes, "bad" a string that is no timestamp.   *)
(***************************************************************************)
BadStamp == [form |-> "bad", t |-> 0]

\* The order in which extract_events_from_response walks the four lists.
SectionIndex(type) ==
    CASE type = "commit" -> 1 [] type = "pull_request" -> 2
      [] type = "issue" -> 3 [] type = "release" -> 4

\* transform_commit / transform_pull_request / transform_issue /
\* transform_release: the event of one node of the response.
\* The id is made of the type, the repository and the oid, number or tag.
transform(type, stamp, number, repo_full_name) ==
    [id |-> <<type, repo_full_name, number>>, repo_full_name |-> repo_full_name,
     event_type |-> type, timestamp |-> stamp]

\* _is_event_after_since with since a naive datetime: fromisoformat raises
\* ValueError for a string that is no timestamp, and comparing the aware
\* time of a Z timestamp with the naive since raises TypeError.
_is_event_after_since(event, since) ==
    CASE event.timestamp.form = "bad" -> "ValueError"
      [] event.timestamp.form = "Z" -> "TypeError"
      [] OTHER -> IF event.timestamp.t > since THEN "True" ELSE "False"

\* The nodes of a response in the order they are walked; a response is a
\* sequence of <<type, timestamp, number>> nodes grouped by type.
Nodes(response_data, repo_full_name) ==
    [k \in DOMAIN response_data |->
        transform(response_data[k][1], response_data[k][2], response_data[k][3],
                  repo_full_name)]

\* The loops of extract_events_from_response: [raised, events].
RECURSIVE ExtractEvents(_, _, _)
ExtractEvents(nodes, since, events) ==
    IF nodes = <<>> THEN [raised |-> FALSE, events |-> events]
    ELSE LET after == _is_event_after_since(Head(nodes), since) IN
         IF after \notin {"True", "False"}
         THEN [raised |-> TRUE, events |-> <<>>]
         ELSE ExtractEvents(Tail(nodes), since,
                            IF after = "True" THEN Append(events, Head(nodes))
                            ELSE events)

extract_events_from_response(response_data, repo_full_name, since) ==
    ExtractEvents(Nodes(response_data, repo_full_name), since, <<>>)

\* max(datetime.fromisoformat(event["timestamp"]) for event in events)
LatestTimestamp(events) ==
    CHOOSE t \in {events[k].timestamp.t : k \in DOMAIN events} :
        \A k \in DOMAIN events : events[k].timestamp.t <= t

\* _fetch_repo_events: [raised, events, since], since the repository's new
\* last fetch time.
_fetch_repo_events(since, repo, response_data) ==
    LET result == extract_events_from_response(response_data, repo, since) IN
    IF result.raised THEN [raised |-> TRUE, events |-> <<>>, since |-> since]
    ELSE [raised |-> FALSE, events |-> result.events,
          since |-> IF result.events # <<>> THEN LatestTimestamp(result.events)
                    ELSE utcnow]

\* The number of nodes of a response that _is_event_after_since accepts.
Acceptable(response_data, repo, since) ==
    Len(SelectSeq(Nodes(response_data, repo),
                  LAMBDA e : _is_event_after_since(e, since) = "True"))

\* The responses GitHub may give for a repository: at most MaxEdges nodes,
\* each with a timestamp that is unparsable, or now with a Z, or naive and
\* either now or the last fetch time.
Stamps(since) ==
    {BadStamp, [form |-> "Z", t |-> utcnow]}
        \cup {[form |-> "naive", t |-> t] : t \in {since, utcnow}}

\* The nodes of one response are distinct objects: the k-th has number k.
Numbered(r) == [k \in DOMAIN r |-> <<r[k][1], r[k][2], k>>]

Responses(since) ==
    {Numbered(r) : r \in
        {x \in SeqsUpTo(EventType \X Stamps(since), MaxEdges) :
            \A k \in 1..(Len(x) - 1) :
                SectionIndex(x[k][1]) <= SectionIndex(x[k + 1][1])}}

\* The responses the query for the repository at a position of the loop may
\* return; none once the loop is over.
ResponsesFor(index) ==
    IF index \in DOMAIN repositories THEN Responses(last_fetch_times[index]) ELSE {}

\* One turn of the loop of _fetch_all_events, lines 156-166: the query for
\* the next repository returns response_data.  After the last repository
\* _fetch_all_events returns and run, lines 101-110, hands the events of the
\* iteration to Pathway.  The values of last_fetch_times, poll and yielded.
_fetch_all_events(response_data) ==
    /\ poll.index <= Len(repositories)
    /\ \E fetched \in {_fetch_repo_events(last_fetch_times[poll.index],
                                          repositories[poll.index], response_data)} :
       \E all_events \in {poll.all_events \o fetched.events} :
           /\ last_fetch_times' = [last_fetch_times EXCEPT ![poll.index] = fetched.since]
           /\ poll' = [index |-> poll.index + 1,
                       all_events |-> all_events,
                       acceptable |->
                           [poll.acceptable EXCEPT ![poll.index] =
                               Acceptable(response_data, repositories[poll.index],
                                          last_fetch_times[poll.index])]]
           /\ yielded' = IF poll.index = Len(repositories) THEN all_events
                         ELSE yielded

FetchRepo(response_data) ==
    /\ _fetch_all_events(response_data)
    /\ UNCHANGED <<polls, pipeVars, laterVars>>
    /\ UNCHANGED <<detVars, created, hubVars, sysVars, hbVars, obsVars>>

\* run, lines 128-130 and 95-101: the sleep between two iterations, and the
\* next iteration begins.
PollSleep ==
    /\ poll.index > Len(repositories)
    /\ polls < MaxPolls
    /\ polls' = polls + 1
    /\ utcnow' = utcnow + poll_interval
    /\ poll' = NewPoll
    /\ yielded' = <<>>
    /\ UNCHANGED <<last_fetch_times, events_table, repos_window, ticks, laterVars>>
    /\ UNCHANGED <<detVars, created, hubVars, sysVars, hbVars, obsVars>>

ConnectorNext ==
    \/ \E response_data \in ResponsesFor(poll.index) : FetchRepo(response_data)
    \/ PollSleep

SpecConnector == UnitInit /\ [][ConnectorNext]_vars

(***************************************************************************)
(* The connector polling a GitHub whose repositories change between polls. *)
(***************************************************************************)
\* A commit, pull request, issue or release is created, or a pull request
\* or an issue is updated: its committedDate, createdAt or updatedAt is now.
Activity(repo, type, number) ==
    /\ activity < MaxActivity
    /\ IF <<repo, type, number>> \in DOMAIN github
       THEN type \in {"pull_request", "issue"}
       ELSE \A n \in 1..(number - 1) : <<repo, type, n>> \in DOMAIN github
    /\ github' = Put(github, <<repo, type, number>>, utcnow)
    /\ activity' = activity + 1
    /\ UNCHANGED <<handed, pipeVars, connVars, scored, trend_row, delivered, cbVars, manager_calls, ghVars>>
    /\ UNCHANGED <<detVars, created, hubVars, sysVars, hbVars, obsVars>>

\* The objects of a set in the order of the response: by list, then number.
RECURSIVE InResponseOrder(_)
InResponseOrder(keys) ==
    IF keys = {} THEN <<>>
    ELSE LET first == CHOOSE k \in keys : \A o \in keys :
                          \/ SectionIndex(k[2]) < SectionIndex(o[2])
                          \/ SectionIndex(k[2]) = SectionIndex(o[2]) /\ k[3] <= o[3]
         IN <<first>> \o InResponseOrder(keys \ {first})

\* What the query returns for a repository: its recent objects, with
\* timestamps written without an offset.
GitHubResponse(repo) ==
    LET keys == InResponseOrder({k \in DOMAIN github : k[1] = repo}) IN
    [n \in DOMAIN keys |->
        <<keys[n][2], [form |-> "naive", t |-> github[keys[n]]], keys[n][3]>>]

EventIdsOf(events) == [k \in DOMAIN events |-> events[k].id]

\* One turn of the loop of _fetch_all_events against this GitHub, and the
\* self.next calls of run after the last one.
PollRepo ==
    /\ poll.index <= Len(repositories)
    /\ _fetch_all_events(GitHubResponse(repositories[poll.index]))
    /\ handed' = IF poll.index = Len(repositories)
                 THEN handed \o EventIdsOf(yielded') ELSE handed
    /\ UNCHANGED <<github, activity, polls, pipeVars, scored, trend_row, delivered, cbVars, manager_calls, ghVars>>
    /\ UNCHANGED <<detVars, created, hubVars, sysVars, hbVars, obsVars>>

UpstreamNext ==
    \/ \E i \in DOMAIN repositories, type \in EventType, number \in 1..MaxNumber :
           Activity(repositories[i], type, number)
    \/ PollRepo
    \/ PollSleep

SpecUpstream == UnitInit /\ [][UpstreamNext]_vars

(***************************************************************************)
(* Activity scoring (pipelines/activity_scoring.py).                       *)
(***************************************************************************)
SCORE_WEIGHTS_Flat == [commit |-> 1, pull_request |-> 1, issue |-> 1, release |-> 1]

\* Activity scoring weights.
SCORE_WEIGHTS == [commit |-> 1, pull_request |-> 3, issue |-> 2, release |-> 5]

\* ActivityScorer.calculate_scores: the selected row of one repository.
calculate_scores(row) ==
    [repo_full_name |-> row.repo_full_name,
     total_events |-> row.total_events,
     commit_count |-> row.commit_count,
     pr_count |-> row.pr_count,
     issue_count |-> row.issue_count,
     release_count |-> row.release_count,
     activity_score |->
         row.commit_count * SCORE_WEIGHTS["commit"]
         + row.pr_count * SCORE_WEIGHTS["pull_request"]
         + row.issue_count * SCORE_WEIGHTS["issue"]
         + row.release_count * SCORE_WEIGHTS["release"]]

\* calculate_windowed_scores: the selected row of one repository in one
\* window's table.
calculate_windowed_scores(row) ==
    [repo_full_name |-> row.repo_full_name,
     window_period |-> row.window_period,
     events_in_window |-> row.events_in_window,
     commits_in_window |-> row.commits_in_window,
     prs_in_window |-> row.prs_in_window,
     issues_in_window |-> row.issues_in_window,
     releases_in_window |-> row.releases_in_window,
     activity_score |->
         row.commits_in_window * SCORE_WEIGHTS["commit"]
         + row.prs_in_window * SCORE_WEIGHTS["pull_request"]
         + row.issues_in_window * SCORE_WEIGHTS["issue"]
         + row.releases_in_window * SCORE_WEIGHTS["release"]]

Counts == 0..MaxCount

\* The scoring of a row of the per-repository aggregation; one row is followed.
ScoreRepository(c, p, i, r) ==
    /\ scored = NoRow
    /\ scored' = calculate_scores(
                     [repo_full_name |-> 1, total_events |-> c + p + i + r,
                      commit_count |-> c, pr_count |-> p, issue_count |-> i,
                      release_count |-> r])
    /\ UNCHANGED <<pipeVars, connVars, upVars, trend_row, delivered, cbVars, manager_calls, ghVars>>
    /\ UNCHANGED <<detVars, created, hubVars, sysVars, hbVars, obsVars>>

\* The scoring of a row of a window's aggregation.
ScoreWindow(w, c, p, i, r) ==
    /\ scored = NoRow
    /\ scored' = calculate_windowed_scores(
                     [repo_full_name |-> 1, window_period |-> w,
                      events_in_window |-> c + p + i + r,
                      commits_in_window |-> c, prs_in_window |-> p,
                      issues_in_window |-> i, releases_in_window |-> r])
    /\ UNCHANGED <<pipeVars, connVars, upVars, trend_row, delivered, cbVars, manager_calls, ghVars>>
    /\ UNCHANGED <<detVars, created, hubVars, sysVars, hbVars, obsVars>>

ScoringNext ==
    \E c \in Counts, p \in Counts, i \in Counts, r \in Counts :
        \/ ScoreRepository(c, p, i, r)
        \/ \E w \in Windows : ScoreWindow(w, c, p, i, r)

SpecScoring == UnitInit /\ [][ScoringNext]_vars

(***************************************************************************)
(* Velocity and trend classification (pipelines/velocity_calculator.py,    *)
(* pipelines/trend_detector.py).  A rate is the fraction [num, den]; the   *)
(* labels are written without the emoji the source puts before them.       *)
(***************************************************************************)
\* q >= n / d
GreaterOrEqual(q, n, d) == q.num * d >= n * q.den

\* q > n / d
GreaterThan(q, n, d) == q.num * d > n * q.den

\* VelocityCalculator.calculate_velocities: score_per_hour of a scored row.
score_per_hour(activity_score, window) ==
    [num |-> activity_score, den |-> WINDOW_DURATIONS[window]]

\* TrendDetector._compare_windows: the selected row.
_compare_windows(row) ==
    [repo_full_name |-> row.repo_full_name,
     window_period |-> row.window_period,
     activity_score |-> row.activity_score,
     score_per_hour |-> row.score_per_hour,
     trend_status |->
         IF GreaterThan(row.score_per_hour, 5, 1) THEN "HOT"
         ELSE IF GreaterThan(row.score_per_hour, 2, 1) THEN "ACTIVE"
         ELSE IF GreaterThan(row.score_per_hour, 1, 2) THEN "MODERATE"
         ELSE "QUIET",
     momentum |->
         IF GreaterThan(row.score_per_hour, 5, 1) THEN "ACCELERATING"
         ELSE IF GreaterThan(row.score_per_hour, 1, 1) THEN "STEADY"
         ELSE "DECELERATING"]

\* The velocity and the classification of a scored row of a window; one row
\* is followed.
CompareWindows(w, activity_score) ==
    /\ trend_row = NoRow
    /\ trend_row' = _compare_windows(
                        [repo_full_name |-> 1, window_period |-> w,
                         activity_score |-> activity_score,
                         score_per_hour |-> score_per_hour(activity_score, w)])
    /\ UNCHANGED <<pipeVars, connVars, upVars, scored, delivered, cbVars, manager_calls, ghVars>>
    /\ UNCHANGED <<detVars, created, hubVars, sysVars, hbVars, obsVars>>

ClassifyNext ==
    \E w \in Windows, activity_score \in 0..MaxScore : CompareWindows(w, activity_score)

SpecClassify == UnitInit /\ [][ClassifyNext]_vars

(***************************************************************************)
(*                              The claims                                 *)
(***************************************************************************)
\* The messages of one type about one repository in a list of messages.
MessagesAbout(msgs, type, repo) ==
    SelectSeq(msgs, LAMBDA m : m.type = type /\ m.repo_full_name = repo)

\* C1: running check_for_changes twice in a row with identical arguments
\* yields no message on the second run.
C1_SecondRunSilent == repeat => messages = <<>>

\* C2: in every cycle a new_event message is returned for an event id exactly
\* when the id occurs in the batch and was not in the seen set at the entry of
\* the cycle, once however often it occurs; afterwards every id of the batch
\* is in the seen set; over all cycles an id gets at most one new_event message.
C2_NewEventOncePerId ==
    /\ \A id \in EventIds : new_event_count[id] <= 1
    /\ calls > 0 =>
         LET batch_ids == {Get(current.events[k], "event_id", NoId) :
                              k \in DOMAIN current.events} \ {NoId}
             new_events == SelectType(messages, "new_event")
         IN /\ \A id \in EventIds :
                  Len(SelectSeq(new_events, LAMBDA m : m.event_id = id))
                    = IF id \in batch_ids \ before.state.event_ids THEN 1 ELSE 0
            /\ \A i \in DOMAIN new_events : new_events[i].event_id \in EventIds
            /\ previous_state.event_ids = before.state.event_ids \cup batch_ids

\* C2's case: a second cycle whose batch holds one unseen id twice and an id
\* an earlier batch already held.
C2_Witness ==
    /\ calls = 2
    /\ \E i, j \in DOMAIN current.events :
          /\ i < j
          /\ "event_id" \in DOMAIN current.events[i]
          /\ current.events[i] = current.events[j]
          /\ current.events[i].event_id \notin before.state.event_ids
          /\ new_event_count[current.events[i].event_id] = 1
          /\ before.state.event_ids # {}

\* C3: the direction of a ranking_change message is "new" when old_rank is
\* None; otherwise "out" when new_rank > 10; otherwise "up" when old_rank >
\* new_rank; otherwise "down" when old_rank < new_rank; otherwise "none".
C3_DirectionPriority ==
    \A i \in DOMAIN created :
        LET m == created[i]
            o == m.old_rank
            n == m.new_rank
        IN /\ o = NoRank => m.change = "new"
           /\ (o # NoRank /\ n > 10) => m.change = "out"
           /\ (o # NoRank /\ n <= 10 /\ o > n) => m.change = "up"
           /\ (o # NoRank /\ n <= 10 /\ o < n) => m.change = "down"
           /\ (o # NoRank /\ n <= 10 /\ o = n) => m.change = "none"
           /\ (o = NoRank /\ n = 3) => m.change = "new"
           /\ (o = 2 /\ n = 11) => m.change = "out"
           /\ (o = 5 /\ n = 2) => m.change = "up"

\* C3's case: the constructor was called with old_rank = 12 and new_rank = 11,
\* where "out" takes priority over "up".
C3_Witness ==
    /\ created # <<>>
    /\ created[1].old_rank = 12
    /\ created[1].new_rank = 11
    /\ created[1].change = "out"

\* C4: in every cycle exactly one ranking_change message is returned for each
\* repository of the current rankings whose rank differs from the rank stored
\* by the previous cycle (no stored rank counting as different) and none for
\* any other repository; no ranking_change message carries change = "none";
\* the stored rankings are afterwards the current rankings.
C4_RankingChangeIffDiffers ==
    calls > 0 =>
        /\ \A r \in Repos :
              Len(MessagesAbout(messages, "ranking_change", r))
                = IF /\ r \in DOMAIN current.rankings
                     /\ \/ r \notin DOMAIN before.state.rankings
                        \/ before.state.rankings[r] # current.rankings[r]
                  THEN 1 ELSE 0
        /\ \A i \in DOMAIN messages :
              messages[i].type = "ranking_change" => messages[i].change # "none"
        /\ previous_state.rankings = current.rankings

\* C4's case: a cycle in which one repository kept its rank, another fell from
\* a stored rank, and exactly the latter got a ranking_change message.
C4_Witness ==
    /\ calls = 2
    /\ \E r1, r2 \in DOMAIN current.rankings \cap DOMAIN before.state.rankings :
          /\ before.state.rankings[r1] = current.rankings[r1]
          /\ before.state.rankings[r2] < current.rankings[r2]
          /\ MessagesAbout(messages, "ranking_change", r1) = <<>>
          /\ Len(MessagesAbout(messages, "ranking_change", r2)) = 1

\* C5: in every cycle exactly one summary_update message is returned for each
\* repository of the current summaries whose summary text differs from the
\* stored text (the empty text for a repository never stored) and none for any
\* other repository; the stored summary of every repository of the current
\* summaries is afterwards the current one, message or not.
C5_SummaryUpdateIffDiffers ==
    calls > 0 =>
        /\ \A r \in Repos :
              Len(MessagesAbout(messages, "summary_update", r))
                = IF /\ r \in DOMAIN current.summaries
                     /\ (IF "summary" \in DOMAIN current.summaries[r]
                         THEN current.summaries[r].summary ELSE "")
                        # (IF /\ r \in DOMAIN before.state.summaries
                              /\ "summary" \in DOMAIN before.state.summaries[r]
                           THEN before.state.summaries[r].summary ELSE "")
                  THEN 1 ELSE 0
        /\ \A r \in DOMAIN current.summaries :
              /\ r \in DOMAIN previous_state.summaries
              /\ previous_state.summaries[r] = current.summaries[r]
        /\ \A r \in DOMAIN before.state.summaries \ DOMAIN current.summaries :
              /\ r \in DOMAIN previous_state.summaries
              /\ previous_state.summaries[r] = before.state.summaries[r]

\* C5's case: a cycle in which one repository's text changed (one message), a
\* never stored repository came with the empty text (no message, yet stored).
C5_Witness ==
    /\ calls = 2
    /\ \E r1, r2 \in DOMAIN current.summaries :
          /\ r1 \in DOMAIN before.state.summaries
          /\ before.state.summaries[r1] # current.summaries[r1]
          /\ Len(MessagesAbout(messages, "summary_update", r1)) = 1
          /\ r2 \notin DOMAIN before.state.summaries
          /\ current.summaries[r2] = EmptyDict
          /\ MessagesAbout(messages, "summary_update", r2) = <<>>
          /\ r2 \in DOMAIN previous_state.summaries

\* C6: in every cycle exactly one trend_change message is returned for each
\* repository of the current trends whose trend_status or momentum differs
\* from the stored value (None when nothing is stored) and none for any other
\* repository; the message carries the old and the new value of both fields.
C6_TrendChangeIffDiffers ==
    calls > 0 =>
        \A r \in Repos :
            LET stored == IF r \in DOMAIN before.state.trends
                          THEN before.state.trends[r] ELSE EmptyDict
                now == IF r \in DOMAIN current.trends
                       THEN current.trends[r] ELSE EmptyDict
                Field(d, f) == IF f \in DOMAIN d THEN d[f] ELSE "None"
                about == MessagesAbout(messages, "trend_change", r)
            IN IF /\ r \in DOMAIN current.trends
                  /\ \/ Field(now, "trend_status") # Field(stored, "trend_status")
                     \/ Field(now, "momentum") # Field(stored, "momentum")
               THEN /\ Len(about) = 1
                    /\ about[1].old_trend = Field(stored, "trend_status")
                    /\ about[1].new_trend = Field(now, "trend_status")
                    /\ about[1].old_momentum = Field(stored, "momentum")
                    /\ about[1].new_momentum = Field(now, "momentum")
               ELSE about = <<>>

\* C6's case: a cycle in which only the momentum of a stored repository
\* changed and a trend_change message reports it.
C6_Witness ==
    /\ calls = 2
    /\ \E r \in DOMAIN current.trends \cap DOMAIN before.state.trends :
          /\ before.state.trends[r] = [trend_status |-> "HOT", momentum |-> "STEADY"]
          /\ current.trends[r] = [trend_status |-> "HOT", momentum |-> "ACCELERATING"]
          /\ Len(MessagesAbout(messages, "trend_change", r)) = 1

\* C7: after the first emission, a metrics_update message is returned only in
\* a cycle in which some counter differs by at least its threshold (10 for
\* total_events, 1 for active_repositories, 5 for total_queries) from the
\* value the last returned metrics_update carried.
C7_EmittedOnlyBeyondLastEmitted ==
    (before.last_emitted # <<>> /\ SelectType(messages, "metrics_update") # <<>>) =>
        LET last == before.last_emitted[1]
            Now(key) == IF key \in DOMAIN current.metrics
                        THEN current.metrics[key] ELSE 0
            Far(a, b, t) == a - b >= t \/ b - a >= t
        IN \/ Far(Now("total_events"), last.total_events, 10)
           \/ Far(Now("active_repositories"), last.active_repositories, 1)
           \/ Far(Now("total_queries"), last.total_queries, 5)

\* C8: in a cycle entered with non-empty stored metrics a metrics_update
\* message is returned if and only if total_events moved by at least 10, or
\* active_repositories by at least 1, or total_queries by at least 5, against
\* the stored metrics (a missing counter is 0); total_events 100 to 105 alone
\* returns none, 100 to 111 returns one.
C8_MetricsUpdateIffThreshold ==
    (calls > 0 /\ before.state.metrics # EmptyDict) =>
        LET Old(key) == IF key \in DOMAIN before.state.metrics
                        THEN before.state.metrics[key] ELSE 0
            Now(key) == IF key \in DOMAIN current.metrics
                        THEN current.metrics[key] ELSE 0
            Far(key, t) == Now(key) - Old(key) >= t \/ Old(key) - Now(key) >= t
            emitted == SelectType(messages, "metrics_update")
            same_others == /\ Old("active_repositories") = Now("active_repositories")
                           /\ Old("total_queries") = Now("total_queries")
        IN /\ (emitted # <<>>) <=> (\/ Far("total_events", 10)
                                    \/ Far("active_repositories", 1)
                                    \/ Far("total_queries", 5))
           /\ Len(emitted) <= 1
           /\ (Old("total_events") = 100 /\ Now("total_events") = 105 /\ same_others)
                 => emitted = <<>>
           /\ (Old("total_events") = 100 /\ Now("total_events") = 111 /\ same_others)
                 => Len(emitted) = 1
           /\ \A i \in DOMAIN emitted :
                 /\ emitted[i].total_events = Now("total_events")
                 /\ emitted[i].active_repositories = Now("active_repositories")
                 /\ emitted[i].total_queries = Now("total_queries")

\* C8's case: the stored total_events is smaller by exactly the threshold of
\* 10, the other counters are unchanged, and a metrics_update is returned.
C8_Witness ==
    /\ calls = 2
    /\ before.state.metrics # EmptyDict
    /\ DOMAIN before.state.metrics = DOMAIN current.metrics
    /\ "total_queries" \in DOMAIN current.metrics
    /\ current.metrics.total_events = before.state.metrics.total_events + 10
    /\ current.metrics.active_repositories = before.state.metrics.active_repositories
    /\ current.metrics.total_queries = before.state.metrics.total_queries
    /\ Len(SelectType(messages, "metrics_update")) = 1


(***************************************************************************)
(* C9.  End-to-end first cycle: when the first monitoring cycle of the     *)
(* application (empty store, fresh detector) has run after a single commit *)
(* event for one repository was ingested, the hub has been handed exactly  *)
(* one new_event message and exactly one ranking_change message, the       *)
(* latter with old_rank = None and change = "new".                         *)
(***************************************************************************)
C9_FirstCycleOneCommit ==
    ( /\ cycles = 1
      /\ monitor.pc = "sleeping"
      /\ Len(cycle_ingested) = 1
      /\ cycle_ingested[1].event_type = "commit" )
    => LET new_events == SelectType(broadcast_log, "new_event")
           ranking_changes == SelectType(broadcast_log, "ranking_change")
       IN /\ Len(new_events) = 1
          /\ Len(ranking_changes) = 1
          /\ ranking_changes[1].old_rank = NoRank
          /\ ranking_changes[1].change = "new"

(***************************************************************************)
(* C10.  Dead-subscriber pruning: once a broadcast call has returned,      *)
(* every connection whose send_json raised during the call, or that the    *)
(* call found not connected, is neither in active_connections nor a key of *)
(* connection_info; and a broadcast call never sends to a connection that  *)
(* an earlier, returned call had found failed.                             *)
(***************************************************************************)
C10_DeadSubscribersPruned ==
    /\ broadcast.pc = "done" =>
           \A i \in DOMAIN broadcast.failed_connections :
               /\ broadcast.failed_connections[i] \notin Range(active_connections)
               /\ broadcast.failed_connections[i] \notin DOMAIN connection_info
    /\ pruned \cap Range(active_connections) = {}
    /\ pruned \cap DOMAIN connection_info = {}
    /\ broadcast.pc = "sending" => broadcast.target \notin pruned

\* A returned broadcast call has pruned a connection whose write failed while
\* another connection stayed live, and a later call is sending to that one.
C10_Witness ==
    /\ broadcast.pc = "sending"
    /\ broadcasts = 2
    /\ \E ws \in pruned : ~transport_up[ws] /\ client_state[ws] = "CONNECTED"


C12_BroadcastCount ==
    LET failed == Range(broadcast.failed_connections)
        not_connected == failed \ Range(send_failed)
    IN /\ broadcast.sent_count = Len(sent_to)
       /\ Range(sent_to) \cap broadcast.exclude = {}
       /\ Range(send_failed) \cap broadcast.exclude = {}
       /\ failed \cap broadcast.exclude = {}
       /\ broadcast.pc = "sending" => broadcast.target \notin broadcast.exclude
       /\ \A ws \in not_connected :
              /\ client_state[ws] # "CONNECTED"
              /\ ws \notin Range(sent_to)
              /\ broadcast.pc = "sending" => broadcast.target # ws

\* A call that excluded one registered, connected connection has returned 1
\* after sending to the other connection, the excluded one still registered.
C12_Witness ==
    /\ broadcast.pc = "done"
    /\ broadcast.sent_count = 1
    /\ \E ws \in broadcast.exclude :
           /\ ws \in Range(active_connections)
           /\ client_state[ws] = "CONNECTED"
           /\ transport_up[ws]


(***************************************************************************)
(* C13.  Delivery failure is isolated: when a broadcast call in which the  *)
(* send_json to some connection raised has returned, every connection that *)
(* was registered, CONNECTED, writable and not excluded throughout the     *)
(* call has been sent the message in that call.                            *)
(***************************************************************************)
C13_FailureIsolated ==
    (broadcast.pc = "done" /\ send_failed # <<>>) =>
        \A ws \in steady : ws \in Range(sent_to)

(***************************************************************************)
(* C15.  Whatever connects and disconnects happen while a broadcast call   *)
(* is suspended in send_json, when the call has returned every connection  *)
(* that was registered, CONNECTED, writable and not excluded throughout    *)
(* the call has been sent the message exactly once.                        *)
(***************************************************************************)
C15_SteadySentExactlyOnce ==
    broadcast.pc = "done" =>
        \A ws \in steady :
            Cardinality({i \in DOMAIN sent_to : sent_to[i] = ws}) = 1


C16_CyclesDoNotInterleave ==
    [][IF cycles' = cycles + 1
       THEN /\ monitor.pc = "sleeping"
            /\ monitor.queue = <<>>
            /\ broadcast.pc # "sending"
            /\ cycles > 0 => broadcast_log = messages
       ELSE previous_state' = previous_state]_vars

\* The second cycle has run and is broadcasting, after the first cycle's
\* broadcast was suspended in a send_json that then delivered its message.
C16_Witness ==
    /\ cycles = 2
    /\ monitor.pc = "broadcasting"
    /\ \E ws \in DOMAIN connection_info : connection_info[ws].messages_sent >= 3

(***************************************************************************)
(* C17.  No error raised inside a monitoring cycle ends the monitoring     *)
(* loop: the task never returns because of an exception.                   *)
(***************************************************************************)
C17_ErrorsDoNotEndLoop == monitor.pc # "ended"

(***************************************************************************)
(* C18.  After every cycle the stored previous state is the snapshot that  *)
(* was passed to the cycle: its summaries, rankings, trends and metrics    *)
(* are the passed ones, with an entry for exactly the repositories of the  *)
(* snapshot.                                                               *)
(***************************************************************************)
C18_StoredStateIsSnapshot ==
    calls > 0 =>
        /\ previous_state.summaries = current.summaries
        /\ previous_state.rankings = current.rankings
        /\ previous_state.trends = current.trends
        /\ previous_state.metrics = current.metrics

(***************************************************************************)
(* C19.  Window filtering: for every window and every repository, the      *)
(* aggregate's events_in_window and its four per-type counts are the       *)
(* numbers of events of that repository whose timestamp lies within the    *)
(* window's duration back from now; a repository without such an event has *)
(* no count in that window.                                                *)
(***************************************************************************)
InWindow(row, w) ==
    row.timestamp <= utcnow /\ utcnow - row.timestamp <= WINDOW_DURATIONS[w]

EventsWithin(w, repo, types) ==
    CountRows(events_table,
              {r \in DOMAIN events_table :
                  r.repo_full_name = repo /\ r.event_type \in types /\ InWindow(r, w)})

C19_WindowFiltering ==
    \A w \in Windows, repo \in Repos :
        IF repo \in DOMAIN repos_window[w]
        THEN LET aggregate == repos_window[w][repo] IN
             /\ aggregate.events_in_window = EventsWithin(w, repo, EventType)
             /\ aggregate.commits_in_window = EventsWithin(w, repo, {"commit"})
             /\ aggregate.prs_in_window = EventsWithin(w, repo, {"pull_request"})
             /\ aggregate.issues_in_window = EventsWithin(w, repo, {"issue"})
             /\ aggregate.releases_in_window = EventsWithin(w, repo, {"release"})
        ELSE EventsWithin(w, repo, EventType) = 0

(***************************************************************************)
(* C20.  An event that cannot be processed does not abort the batch: when  *)
(* a poll iteration has handed its events to the pipeline, every event of  *)
(* every response of the iteration that is well-formed and newer than the  *)
(* repository's last fetch time is among them.                             *)
(***************************************************************************)
YieldedOf(repo) == SelectSeq(yielded, LAMBDA e : e.repo_full_name = repo)

C20_MalformedSkipped ==
    poll.index > Len(repositories) =>
        \A i \in DOMAIN repositories :
            Len(YieldedOf(repositories[i])) = poll.acceptable[i]

(***************************************************************************)
(* C21.  Event ids are globally unique: whatever happens upstream between  *)
(* the polls, no two events handed to the pipeline carry the same id.      *)
(***************************************************************************)
C21_EventIdsUnique ==
    \A a, b \in DOMAIN handed : a # b => handed[a] # handed[b]

(***************************************************************************)
(* C22.  For counts (c, p, i, r) of commits, pull requests, issues and     *)
(* releases the activity score of a row is c + 3p + 2i + 5r, for the       *)
(* per-repository totals and for the counts of every window.               *)
(***************************************************************************)
C22_ScoreFormula ==
    /\ "commit_count" \in DOMAIN scored =>
           scored.activity_score =
               scored.commit_count + 3 * scored.pr_count
               + 2 * scored.issue_count + 5 * scored.release_count
    /\ "commits_in_window" \in DOMAIN scored =>
           scored.activity_score =
               scored.commits_in_window + 3 * scored.prs_in_window
               + 2 * scored.issues_in_window + 5 * scored.releases_in_window

\* The counts (3, 4, 2, 1) have been scored 24.
C22_Witness ==
    /\ "commit_count" \in DOMAIN scored
    /\ scored.commit_count = 3 /\ scored.pr_count = 4
    /\ scored.issue_count = 2 /\ scored.release_count = 1
    /\ scored.activity_score = 24

(***************************************************************************)
(* C23.  Trend classification is a total function of score_per_hour with   *)
(* strict lower bounds: HOT above 5, ACTIVE above 2 up to 5, MODERATE      *)
(* above 0.5 up to 2, QUIET up to 0.5; ACCELERATING above 5, STEADY above  *)
(* 1 up to 5, DECELERATING up to 1.  A value on a boundary falls into the  *)
(* lower bucket, and every value gets one status and one momentum.         *)
(***************************************************************************)
C23_TrendBuckets ==
    trend_row # NoRow =>
        LET s == trend_row.activity_score
            h == WINDOW_DURATIONS[trend_row.window_period]
        IN /\ trend_row.trend_status \in {"HOT", "ACTIVE", "MODERATE", "QUIET"}
           /\ trend_row.momentum \in {"ACCELERATING", "STEADY", "DECELERATING"}
           /\ trend_row.trend_status = "HOT" <=> s > 5 * h
           /\ trend_row.trend_status = "ACTIVE" <=> (2 * h < s /\ s <= 5 * h)
           /\ trend_row.trend_status = "MODERATE" <=> (h < 2 * s /\ s <= 2 * h)
           /\ trend_row.trend_status = "QUIET" <=> 2 * s <= h
           /\ trend_row.momentum = "ACCELERATING" <=> s > 5 * h
           /\ trend_row.momentum = "STEADY" <=> (h < s /\ s <= 5 * h)
           /\ trend_row.momentum = "DECELERATING" <=> s <= h

\* A row whose score_per_hour is exactly 5 (840 points in 168 hours) has been
\* classified ACTIVE and STEADY.
C23_Witness ==
    /\ trend_row # NoRow
    /\ trend_row.window_period = "7d"
    /\ trend_row.activity_score = 840
    /\ trend_row.trend_status = "ACTIVE"
    /\ trend_row.momentum = "STEADY"

(***************************************************************************)
(* C24.  Heartbeat lifecycle: the heartbeat task of a connection begins a  *)
(* send only when it wakes from its sleep, while the connection is         *)
(* CONNECTED and its handler is running; it ends only when it finds the    *)
(* connection not CONNECTED or is cancelled by the exiting handler, and is *)
(* never started again; the handler's exit ends it wherever it stands, and *)
(* after the exit no heartbeat send begins or returns for the connection.  *)
(***************************************************************************)
C24_HeartbeatLifecycle ==
    [][\A ws \in Sockets :
          /\ (heartbeat[ws] # "sending" /\ heartbeat'[ws] = "sending") =>
                 /\ heartbeat[ws] = "sleeping"
                 /\ client_state[ws] = "CONNECTED"
                 /\ handler[ws] = "receiving"
          /\ (heartbeat[ws] # "ended" /\ heartbeat'[ws] = "ended") =>
                 \/ heartbeat[ws] = "sleeping" /\ client_state[ws] # "CONNECTED"
                 \/ handler[ws] = "receiving" /\ handler'[ws] = "exited"
          /\ (heartbeat[ws] = "none" /\ heartbeat'[ws] # "none") =>
                 handler[ws] = "welcome" /\ heartbeat'[ws] = "sleeping"
          /\ heartbeat[ws] = "ended" => heartbeat'[ws] = "ended"
          /\ handler'[ws] = "exited" =>
                 /\ heartbeat'[ws] \in {"none", "ended"}
                 /\ ws \in DOMAIN connection_info /\ ws \in DOMAIN connection_info'
                        => connection_info'[ws] = connection_info[ws]]_vars

\* A handler has exited and ended its heartbeat task, after a heartbeat send
\* had begun, with the connection still CONNECTED.
C24_Witness ==
    \E ws \in Sockets :
        /\ handler[ws] = "exited"
        /\ heartbeat[ws] = "ended"
        /\ beats > 0
        /\ client_state[ws] = "CONNECTED"

(***************************************************************************)
(* C28.  Whenever a connection handler has exited after Connect registered *)
(* the connection, the connection is out of the live list, its metadata    *)
(* is deleted and its heartbeat task is not running.                       *)
(***************************************************************************)
C28_ExitCleansUp ==
    \A ws \in Sockets :
        handler[ws] = "exited" =>
            /\ ws \notin Range(active_connections)
            /\ ws \notin DOMAIN connection_info
            /\ heartbeat[ws] \in {"none", "ended"}

\* broadcast_changes, main.py lines 69-71: a delivery of call number
\* a[2] of cycle a[1] comes from an earlier call than one of call b[2] of
\* cycle b[1].
Before(a, b) == a[1] < b[1] \/ (a[1] = b[1] /\ a[2] < b[2])

\* C25: the messages a connection receives from the monitoring task arrive
\* in the order of the broadcast calls: those of one cycle in the order of
\* the list check_for_changes returned, and those of a cycle before those of
\* every later cycle.
C25_PerConnectionFifo ==
    \A ws \in Sockets :
        /\ \A i, j \in DOMAIN delivered[ws] :
               i < j => Before(delivered[ws][i], delivered[ws][j])
        /\ \A i \in DOMAIN delivered[ws] :
               delivered[ws][i][1] = cycles =>
                   /\ delivered[ws][i][2] \in DOMAIN messages
                   /\ delivered[ws][i][3] = messages[delivered[ws][i][2]]

\* A connection has received the three messages of the first cycle and then
\* the two of the second, a summary update and a ranking change.
C25_Witness ==
    \E ws \in Sockets :
        /\ Len(delivered[ws]) = 5
        /\ \A i \in 1..3 : delivered[ws][i][1] = 1 /\ delivered[ws][i][2] = i
        /\ \A i \in 1..2 : delivered[ws][3 + i][1] = 2 /\ delivered[ws][3 + i][2] = i
        /\ delivered[ws][4][3].type = "summary_update"
        /\ delivered[ws][5][3].type = "ranking_change"

\* C26: a cycle entered with total_events at least 10, or total_queries at
\* least 5, above the value the last returned metrics_update carried returns
\* a metrics_update, whatever the cycles in between saw.
C26_EmittedWheneverBeyondLastEmitted ==
    before.last_emitted # <<>> =>
        LET last == before.last_emitted[1]
            Now(key) == IF key \in DOMAIN current.metrics
                        THEN current.metrics[key] ELSE 0
        IN (\/ Now("total_events") - last.total_events >= 10
            \/ Now("total_queries") - last.total_queries >= 5)
               => SelectType(messages, "metrics_update") # <<>>

\* C27: a check_for_changes call that found messages has invoked every
\* registered callback, in registration order and each with the returned
\* list, whichever of them raised, and has returned; a call that found
\* none has invoked no callback.
C27_CallbackFailureContained ==
    outcome # "none" =>
        /\ outcome = "returned"
        /\ notified = IF messages = <<>> THEN <<>>
                      ELSE [k \in DOMAIN change_callbacks |->
                               [callback |-> change_callbacks[k],
                                messages |-> messages]]

\* C29: under direct calls of connect (for websockets that are not
\* registered), disconnect, send_personal_message and broadcast, the keys
\* of connection_info are at all times exactly the websockets in
\* active_connections, no websocket is twice in active_connections, and a
\* disconnect of a websocket that is not registered changes neither.
C29_LiveSetInvariant ==
    /\ [](/\ DOMAIN connection_info = Range(active_connections)
          /\ \A i, j \in DOMAIN active_connections :
                 active_connections[i] = active_connections[j] => i = j)
    /\ [][\A ws \in Sockets :
             (ws \notin Range(active_connections) /\ ManagerDisconnect(ws))
                 => UNCHANGED <<active_connections, connection_info>>]_vars

\* A websocket that a returned broadcast call had cleaned up is registered
\* again, behind a websocket registered after it, which has received the
\* broadcast and a personal message.
C29_Witness ==
    /\ broadcasts = 1
    /\ broadcast.pc = "done"
    /\ Len(active_connections) = 2
    /\ active_connections[2] \in pruned
    /\ active_connections[2] < active_connections[1]
    /\ active_connections[2] \in DOMAIN connection_info
    /\ connection_info[active_connections[1]].messages_sent = 2
    /\ manager_calls = 5

\* C30: an execute_query call makes at most MAX_RETRIES + 1 = 4 HTTP
\* attempts, whatever mix of server errors, timeouts and request errors it
\* meets; after the fourth attempt it has returned or raised; and an
\* attempt answered with 401 or 403 is the call's last: the call has raised.
C30_RetriesBounded ==
    /\ request.attempts <= MAX_RETRIES + 1
    /\ MAX_RETRIES + 1 = 4
    /\ request.attempts = 4 => request.pc = "ended"
    /\ Len(request.failures) <= MAX_RETRIES
    /\ request.last \in {"401", "403"} =>
           /\ request.pc = "ended"
           /\ request.result \in {"GitHubAPIError", "RateLimitError"}
    /\ request.pc = "ended" => request.result # "None"

\* A call has met a server error, a timeout and a request error, was
\* answered 503 at its fourth attempt and has raised.
C30_Witness ==
    /\ request.pc = "ended"
    /\ request.failures = <<"500", "TimeoutException", "RequestError">>
    /\ request.last = "503"
    /\ request.attempts = 4
    /\ request.result = "GitHubAPIError"

====
